---- MODULE Spec2Model ----
(***************************************************************************)
(* A model of the diagram-normalisation core of architecture-governance:   *)
(* the Diagram AST schema and its JSON form, the enrichment pass, the      *)
(* quality gate, the Draw.io and SVG extractors' entry points and the      *)
(* de-duplication steps of the rules engine.                               *)
(*                                                                         *)
(* Python dicts and dataclass instances are functions from key strings to  *)
(* values, Python lists are sequences, None is the value None below.  Each *)
(* part of the program has its own variables and its own specification;    *)
(* a specification leaves the variables of the other parts idle.           *)
(***************************************************************************)
EXTENDS Integers, Sequences, FiniteSets, TLC

VARIABLES
    j_pc,       \* JSON part: "built" | "serialized" | "loaded"
    j_ast,      \* the DiagramAST handed to to_json
    j_data,     \* the dict between to_json and from_json (the .ast.json content)
    j_edits,    \* what a foreign writer did to j_data: sequence of edit tags
    j_res,      \* what from_json returned: [ok, ast] or [ok, error]
    e_ast,      \* enrichment part: the AST enrich_ast mutates in place
    e_orig,     \* the AST as it was before the first enrich_ast
    e_prev,     \* the AST as it was before the latest enrich_ast
    e_calls,    \* number of enrich_ast applications so far
    d_nodes,    \* direction part: the node list handed to detect_direction
    d_dir,      \* what detect_direction returned
    v_pc,       \* quality gate: "loaded" | "errors" | "done"
    v_data,     \* the dict evaluate loaded from ast_path
    v_partial,  \* <<the dict loaded from partial_path>>, or <<>> without --partial
    v_results,  \* the results dict evaluate is filling in
    dw_pc,      \* Draw.io part: "called" | "done", or "parsed" | "extracted"
    dw_content, \* the content of the file at input_path, or the cells of a page
    dw_page_index,  \* the page_index argument
    dw_ret,     \* what convert_drawio_to_ast did: returned an AST, or raised
    s_pc,       \* SVG part: "called" | "scanned" | "labeled" | "done"
    s_svg,      \* the svg_content argument
    s_scan,     \* raw_shapes, texts_with_pos and raw_lines after the element loop
    s_labeled,  \* labeled_shapes, with their ids
    s_ret,      \* what convert_svg_to_ast did: returned None or an AST, or raised
    r_ops,          \* rules part: calls made so far
    r_page_md,      \* per page: the content of page.md, <<>> while absent
    r_rules_md,     \* per page: its rules.md, <<>> while absent
    r_all_rules_md, \* the consolidated _all.rules.md, <<>> while absent
    r_dedups,       \* the deduplications of the last call: step, input, output
    r_call,         \* the last call: its arguments and the consolidated file before it
    x_pc,       \* derivation part: "called" | "done"
    x_ast,      \* the AST handed to extract_rules_from_ast
    x_rules,    \* the rule list it returned
    p_pc,       \* PlantUML part: "called" | "parsed" | "done"
    p_arrow,    \* the arrow argument of parse_arrow, a sequence of glyphs
    p_parsed,   \* <<the ParsedArrow it returned>>
    p_content,  \* the puml_content argument, a sequence of lines
    p_data,     \* what the data parser returned
    p_ast       \* the AST convert_plantuml_to_ast built from it

jsonVars == <<j_pc, j_ast, j_data, j_edits, j_res>>
enrichVars == <<e_ast, e_orig, e_prev, e_calls>>
dirVars == <<d_nodes, d_dir>>
evalVars == <<v_pc, v_data, v_partial, v_results>>
drawioVars == <<dw_pc, dw_content, dw_page_index, dw_ret>>
svgVars == <<s_pc, s_svg, s_scan, s_labeled, s_ret>>
rulesVars == <<r_ops, r_page_md, r_rules_md, r_all_rules_md, r_dedups, r_call>>
deriveVars == <<x_pc, x_ast, x_rules>>
pumlVars == <<p_pc, p_arrow, p_parsed, p_content, p_data, p_ast>>

vars == <<jsonVars, enrichVars, dirVars, evalVars, drawioVars, svgVars, rulesVars, deriveVars, pumlVars>>

(***************************************************************************)
(* Bounds of the model.                                                    *)
(***************************************************************************)
MaxList == 1        \* longest node / edge / group list drawn for the JSON part
MaxEdits == 1       \* edits a foreign writer makes to a serialized dict
MaxEnrichNodes == 2 \* longest node list drawn for the enrichment part
MaxEnrichCalls == 2 \* applications of enrich_ast to one AST
MaxDirNodes == 3    \* longest node list handed to detect_direction
MaxEvalNodes == 3   \* longest node list of an AST handed to the quality gate
MaxEvalEdges == 2   \* longest edge list of an AST handed to the quality gate
MaxDiagrams == 2    \* most <diagram> elements of a Draw.io file
MaxSvgElems == 3    \* most elements under the root of an SVG
MaxRuleOps == 2     \* calls into the rules engine
MaxAstFiles == 2    \* most AST files in a page's output directory
MaxNewRules == 2    \* longest rule list a caller hands to update_all_rules
MaxRuleNodes == 3   \* longest node list of an AST handed to extract_rules_from_ast
MaxRuleEdges == 2   \* longest edge list of an AST handed to extract_rules_from_ast

(***************************************************************************)
(* Generic helpers for dicts and lists.                                    *)
(***************************************************************************)
None == "<None>"
EmptyDict == [k \in {} |-> None]
Idle == "idle"

\* dict.get(key, default)
Get(d, k, default) == IF k \in DOMAIN d THEN d[k] ELSE default

\* {k: v for k, v in d.items() if k in keep}
Restrict(d, keep) == [k \in (DOMAIN d) \cap keep |-> d[k]]

\* the dict d without key k
Without(d, k) == [x \in (DOMAIN d) \ {k} |-> d[x]]

SeqsUpTo(S, n) == UNION {[1..m -> S] : m \in 0..n}

Range(s) == {s[i] : i \in DOMAIN s}

(***************************************************************************)
(* The dataclasses of diagram_ast.py: field names, the fields without a    *)
(* default (required by the generated __init__) and the defaults.          *)
(***************************************************************************)
AST_SCHEMA_VERSION == "2.0.0"

NodeFields == {"id", "label", "shape", "x", "y", "width", "height",
               "fill_color", "stroke_color", "font_color", "parent_group",
               "role", "metadata"}
NodeRequired == {"id", "label"}
NodeDefaults == [shape |-> "rectangle", x |-> 0, y |-> 0, width |-> 0,
                 height |-> 0, fill_color |-> None, stroke_color |-> None,
                 font_color |-> None, parent_group |-> None, role |-> "",
                 metadata |-> EmptyDict]

EdgeFields == {"id", "source", "target", "label", "style", "arrow_start",
               "arrow_end", "color", "protocol", "sequence_order", "metadata"}
EdgeRequired == {"id", "source", "target"}
EdgeDefaults == [label |-> "", style |-> "solid", arrow_start |-> FALSE,
                 arrow_end |-> TRUE, color |-> None, protocol |-> "",
                 sequence_order |-> 0, metadata |-> EmptyDict]

GroupFields == {"id", "label", "children", "parent_group", "style",
                "fill_color", "zone_type"}
GroupRequired == {"id", "label"}
GroupDefaults == [children |-> <<>>, parent_group |-> None, style |-> "solid",
                  fill_color |-> None, zone_type |-> ""]

AstFields == {"nodes", "edges", "groups", "diagram_type", "direction", "metadata"}
AstDefaults == [nodes |-> <<>>, edges |-> <<>>, groups |-> <<>>,
                diagram_type |-> "flowchart", direction |-> "TB",
                metadata |-> EmptyDict]

\* The __init__ a dataclass generates, called as Cls(**kw): a TypeError when a
\* field without default is not passed or a keyword is no field, else every
\* field, passed or default.
TypeError == [raised |-> "TypeError"]

IsTypeError(v) == "raised" \in DOMAIN v

DataclassInit(kw, fields, required, defaults) ==
    IF required \subseteq DOMAIN kw /\ DOMAIN kw \subseteq fields
    THEN [f \in fields |-> IF f \in DOMAIN kw THEN kw[f] ELSE defaults[f]]
    ELSE TypeError

DiagramNode(kw) == DataclassInit(kw, NodeFields, NodeRequired, NodeDefaults)
DiagramEdge(kw) == DataclassInit(kw, EdgeFields, EdgeRequired, EdgeDefaults)
DiagramGroup(kw) == DataclassInit(kw, GroupFields, GroupRequired, GroupDefaults)
DiagramAST(kw) == DataclassInit(kw, AstFields, {}, AstDefaults)

(***************************************************************************)
(* to_json / from_json.                                                    *)
(***************************************************************************)
\* dataclasses.asdict: a dict with one key per field, lists converted
\* element by element.
AsDictOf(obj, fields) == [f \in fields |-> obj[f]]

AsDict(ast) ==
    [f \in AstFields |->
        CASE f = "nodes"  -> [i \in DOMAIN ast.nodes |-> AsDictOf(ast.nodes[i], NodeFields)]
          [] f = "edges"  -> [i \in DOMAIN ast.edges |-> AsDictOf(ast.edges[i], EdgeFields)]
          [] f = "groups" -> [i \in DOMAIN ast.groups |-> AsDictOf(ast.groups[i], GroupFields)]
          [] OTHER        -> ast[f]]

to_json(ast) == AsDict(ast) @@ ("schema_version" :> AST_SCHEMA_VERSION)

\* from_json with the unpacking of the node objects left unfiltered.
from_json_no_filter(data) ==
    LET rawNodes == Get(data, "nodes", <<>>)
        rawEdges == Get(data, "edges", <<>>)
        rawGroups == Get(data, "groups", <<>>)
        nodes == [i \in DOMAIN rawNodes |-> DiagramNode(rawNodes[i])]
        edges == [i \in DOMAIN rawEdges |-> DiagramEdge(Restrict(rawEdges[i], EdgeFields))]
        groups == [i \in DOMAIN rawGroups |-> DiagramGroup(Restrict(rawGroups[i], GroupFields))]
    IN  IF \/ \E i \in DOMAIN nodes : IsTypeError(nodes[i])
           \/ \E i \in DOMAIN edges : IsTypeError(edges[i])
           \/ \E i \in DOMAIN groups : IsTypeError(groups[i])
        THEN [ok |-> FALSE, error |-> "TypeError"]
        ELSE [ok |-> TRUE,
              ast |-> DiagramAST([nodes |-> nodes, edges |-> edges, groups |-> groups,
                                  diagram_type |-> Get(data, "diagram_type", "flowchart"),
                                  direction |-> Get(data, "direction", "TB"),
                                  metadata |-> Get(data, "metadata", EmptyDict)])]

\* from_json with the metadata argument of the DiagramAST call forgotten.
from_json_no_metadata(data) ==
    LET rawNodes == Get(data, "nodes", <<>>)
        rawEdges == Get(data, "edges", <<>>)
        rawGroups == Get(data, "groups", <<>>)
        nodes == [i \in DOMAIN rawNodes |-> DiagramNode(Restrict(rawNodes[i], NodeFields))]
        edges == [i \in DOMAIN rawEdges |-> DiagramEdge(Restrict(rawEdges[i], EdgeFields))]
        groups == [i \in DOMAIN rawGroups |-> DiagramGroup(Restrict(rawGroups[i], GroupFields))]
    IN  IF \/ \E i \in DOMAIN nodes : IsTypeError(nodes[i])
           \/ \E i \in DOMAIN edges : IsTypeError(edges[i])
           \/ \E i \in DOMAIN groups : IsTypeError(groups[i])
        THEN [ok |-> FALSE, error |-> "TypeError"]
        ELSE [ok |-> TRUE,
              ast |-> DiagramAST([nodes |-> nodes, edges |-> edges, groups |-> groups,
                                  diagram_type |-> Get(data, "diagram_type", "flowchart"),
                                  direction |-> Get(data, "direction", "TB")])]

from_json(data) ==
    LET rawNodes == Get(data, "nodes", <<>>)
        rawEdges == Get(data, "edges", <<>>)
        rawGroups == Get(data, "groups", <<>>)
        nodes == [i \in DOMAIN rawNodes |-> DiagramNode(Restrict(rawNodes[i], NodeFields))]
        edges == [i \in DOMAIN rawEdges |-> DiagramEdge(Restrict(rawEdges[i], EdgeFields))]
        groups == [i \in DOMAIN rawGroups |-> DiagramGroup(Restrict(rawGroups[i], GroupFields))]
    IN  IF \/ \E i \in DOMAIN nodes : IsTypeError(nodes[i])
           \/ \E i \in DOMAIN edges : IsTypeError(edges[i])
           \/ \E i \in DOMAIN groups : IsTypeError(groups[i])
        THEN [ok |-> FALSE, error |-> "TypeError"]
        ELSE [ok |-> TRUE,
              ast |-> DiagramAST([nodes |-> nodes, edges |-> edges, groups |-> groups,
                                  diagram_type |-> Get(data, "diagram_type", "flowchart"),
                                  direction |-> Get(data, "direction", "TB"),
                                  metadata |-> Get(data, "metadata", EmptyDict)])]

(***************************************************************************)
(* The parts a specification does not exercise stay idle.                  *)
(***************************************************************************)
JIdle == j_pc = Idle /\ j_ast = Idle /\ j_data = Idle /\ j_edits = <<>> /\ j_res = Idle
EIdle == e_ast = Idle /\ e_orig = Idle /\ e_prev = Idle /\ e_calls = 0
DIdle == d_nodes = <<>> /\ d_dir = Idle
VIdle == v_pc = Idle /\ v_data = Idle /\ v_partial = Idle /\ v_results = Idle
WIdle == dw_pc = Idle /\ dw_content = Idle /\ dw_page_index = 0 /\ dw_ret = Idle
SIdle == s_pc = Idle /\ s_svg = Idle /\ s_scan = Idle /\ s_labeled = Idle /\ s_ret = Idle
XIdle == x_pc = Idle /\ x_ast = Idle /\ x_rules = Idle
PIdle ==
    /\ p_pc = Idle /\ p_arrow = <<>> /\ p_parsed = <<>>
    /\ p_content = <<>> /\ p_data = Idle /\ p_ast = Idle
RIdle ==
    /\ r_ops = 0 /\ r_page_md = Idle /\ r_rules_md = Idle /\ r_all_rules_md = Idle
    /\ r_dedups = <<>> /\ r_call = <<>>

IdleBut(part) ==
    /\ IF part = "json" THEN TRUE ELSE JIdle
    /\ IF part = "enrich" THEN TRUE ELSE EIdle
    /\ IF part = "direction" THEN TRUE ELSE DIdle
    /\ IF part = "eval" THEN TRUE ELSE VIdle
    /\ IF part = "drawio" THEN TRUE ELSE WIdle
    /\ IF part = "svg" THEN TRUE ELSE SIdle
    /\ IF part = "rules" THEN TRUE ELSE RIdle
    /\ IF part = "derive" THEN TRUE ELSE XIdle
    /\ IF part = "puml" THEN TRUE ELSE PIdle

notJson == <<enrichVars, dirVars, evalVars, drawioVars, svgVars, rulesVars, deriveVars, pumlVars>>
notEnrich == <<jsonVars, dirVars, evalVars, drawioVars, svgVars, rulesVars, deriveVars, pumlVars>>
notDir == <<jsonVars, enrichVars, evalVars, drawioVars, svgVars, rulesVars, deriveVars, pumlVars>>
notEval == <<jsonVars, enrichVars, dirVars, drawioVars, svgVars, rulesVars, deriveVars, pumlVars>>
notDrawio == <<jsonVars, enrichVars, dirVars, evalVars, svgVars, rulesVars, deriveVars, pumlVars>>
notSvg == <<jsonVars, enrichVars, dirVars, evalVars, drawioVars, rulesVars, deriveVars, pumlVars>>
notRules == <<jsonVars, enrichVars, dirVars, evalVars, drawioVars, svgVars, deriveVars, pumlVars>>
notPuml == <<jsonVars, enrichVars, dirVars, evalVars, drawioVars, svgVars, rulesVars, deriveVars>>
notDerive == <<jsonVars, enrichVars, dirVars, evalVars, drawioVars, svgVars, rulesVars, pumlVars>>

(***************************************************************************)
(* The JSON part as a state machine: an AST is built, to_json serializes   *)
(* it, the dict may be rewritten by a foreign writer (another schema       *)
(* version, a repair step) that drops keys or adds keys of its own, and    *)
(* from_json loads it.                                                     *)
(***************************************************************************)
NodeSamples ==
    { [id |-> "A", label |-> "Api Gateway", shape |-> "database", x |-> 5, y |-> 7,
       width |-> 10, height |-> 20, fill_color |-> "#ff0000",
       stroke_color |-> "#00ff00", font_color |-> "#0000ff",
       parent_group |-> "g1", role |-> "gateway", metadata |-> ("stereotype" :> "svc")],
      [id |-> "B", label |-> "", shape |-> "rectangle", x |-> 0, y |-> 0,
       width |-> 0, height |-> 0, fill_color |-> None, stroke_color |-> None,
       font_color |-> None, parent_group |-> None, role |-> "",
       metadata |-> EmptyDict] }

EdgeSamples ==
    { [id |-> "edge_1", source |-> "A", target |-> "B", label |-> "HTTPS query",
       style |-> "dashed", arrow_start |-> TRUE, arrow_end |-> FALSE,
       color |-> "#333333", protocol |-> "HTTPS", sequence_order |-> 1,
       metadata |-> ("activate" :> "1")] }

GroupSamples ==
    { [id |-> "g1", label |-> "DMZ", children |-> <<"A">>, parent_group |-> "g0",
       style |-> "dashed", fill_color |-> "#eeeeee", zone_type |-> "dmz"] }

AstTops ==
    { [diagram_type |-> "flowchart", direction |-> "TB", metadata |-> EmptyDict],
      [diagram_type |-> "sequence", direction |-> "LR",
       metadata |-> ("source_format" :> "drawio")] }

AstSamples ==
    { [nodes |-> ns, edges |-> es, groups |-> gs, diagram_type |-> t.diagram_type,
       direction |-> t.direction, metadata |-> t.metadata] :
        ns \in SeqsUpTo(NodeSamples, MaxList), es \in SeqsUpTo(EdgeSamples, MaxList),
        gs \in SeqsUpTo(GroupSamples, MaxList), t \in AstTops }

ListKeys == {"nodes", "edges", "groups"}
UnknownKey == "x_future"

JInit ==
    /\ j_pc = "built"
    /\ j_ast \in AstSamples
    /\ j_data = Idle
    /\ j_edits = <<>>
    /\ j_res = Idle
    /\ IdleBut("json")

ToJson ==
    /\ j_pc = "built"
    /\ j_data' = to_json(j_ast)
    /\ j_pc' = "serialized"
    /\ UNCHANGED <<j_ast, j_edits, j_res, notJson>>

DropTopKey ==
    /\ j_pc = "serialized"
    /\ Len(j_edits) < MaxEdits
    /\ \E k \in DOMAIN j_data :
          /\ j_data' = Without(j_data, k)
          /\ j_edits' = Append(j_edits, "drop")
    /\ UNCHANGED <<j_pc, j_ast, j_res, notJson>>

DropItemKey ==
    /\ j_pc = "serialized"
    /\ Len(j_edits) < MaxEdits
    /\ \E L \in ListKeys \cap DOMAIN j_data :
          \E i \in DOMAIN j_data[L] :
            \E k \in DOMAIN j_data[L][i] :
              /\ j_data' = [j_data EXCEPT ![L] = [@ EXCEPT ![i] = Without(@, k)]]
              /\ j_edits' = Append(j_edits, "drop")
    /\ UNCHANGED <<j_pc, j_ast, j_res, notJson>>

AddTopKey ==
    /\ j_pc = "serialized"
    /\ Len(j_edits) < MaxEdits
    /\ UnknownKey \notin DOMAIN j_data
    /\ j_data' = j_data @@ (UnknownKey :> "v")
    /\ j_edits' = Append(j_edits, "add")
    /\ UNCHANGED <<j_pc, j_ast, j_res, notJson>>

AddItemKey ==
    /\ j_pc = "serialized"
    /\ Len(j_edits) < MaxEdits
    /\ \E L \in ListKeys \cap DOMAIN j_data :
          \E i \in DOMAIN j_data[L] :
              /\ UnknownKey \notin DOMAIN j_data[L][i]
              /\ j_data' = [j_data EXCEPT ![L] = [@ EXCEPT ![i] = @ @@ (UnknownKey :> "v")]]
              /\ j_edits' = Append(j_edits, "add")
    /\ UNCHANGED <<j_pc, j_ast, j_res, notJson>>

FromJson ==
    /\ j_pc = "serialized"
    /\ j_res' = from_json(j_data)
    /\ j_pc' = "loaded"
    /\ UNCHANGED <<j_ast, j_data, j_edits, notJson>>

JNext == ToJson \/ DropTopKey \/ DropItemKey \/ AddTopKey \/ AddItemKey \/ FromJson

SpecJson == JInit /\ [][JNext]_vars

(***************************************************************************)
(* Claims about to_json / from_json.                                       *)
(***************************************************************************)
FieldsOf(L) == CASE L = "nodes" -> NodeFields [] L = "edges" -> EdgeFields
                 [] L = "groups" -> GroupFields
RequiredOf(L) == CASE L = "nodes" -> NodeRequired [] L = "edges" -> EdgeRequired
                   [] L = "groups" -> GroupRequired

\* two lists of objects are equal element by element and field by field
SameList(xs, ys, fields) ==
    /\ Len(xs) = Len(ys)
    /\ \A i \in DOMAIN xs :
          /\ DOMAIN xs[i] = fields
          /\ \A f \in fields : xs[i][f] = ys[i][f]

\* C1: for every DiagramAST a, from_json(to_json(a)) has node, edge and group
\* lists equal element by element and field by field to those of a and equal
\* diagram_type, direction and metadata; schema_version is not carried over.
C1_RoundTrip ==
    (j_pc = "loaded" /\ j_edits = <<>>) =>
        /\ j_res.ok
        /\ SameList(j_res.ast.nodes, j_ast.nodes, NodeFields)
        /\ SameList(j_res.ast.edges, j_ast.edges, EdgeFields)
        /\ SameList(j_res.ast.groups, j_ast.groups, GroupFields)
        /\ j_res.ast.diagram_type = j_ast.diagram_type
        /\ j_res.ast.direction = j_ast.direction
        /\ j_res.ast.metadata = j_ast.metadata
        /\ "schema_version" \notin DOMAIN j_res.ast

C1_Witness ==
    /\ j_pc = "loaded" /\ j_edits = <<>> /\ j_res.ok
    /\ "schema_version" \in DOMAIN j_data
    /\ Len(j_ast.nodes) > 0 /\ Len(j_ast.edges) > 0 /\ Len(j_ast.groups) > 0
    /\ j_ast.nodes[1].shape # "rectangle"
    /\ j_ast.metadata # EmptyDict

\* the defaults the interface documents for missing optional keys
DocumentedDefault(f) ==
    CASE f = "shape" -> "rectangle"
      [] f = "style" -> "solid"
      [] f = "arrow_end" -> TRUE
      [] f = "arrow_start" -> FALSE
      [] f \in {"x", "y", "width", "height", "sequence_order"} -> 0
      [] f = "diagram_type" -> "flowchart"
      [] f = "direction" -> "TB"
      [] f \in {"nodes", "edges", "groups", "children"} -> <<>>
      [] f \in {"label", "role", "protocol", "zone_type"} -> ""
      [] f = "metadata" -> EmptyDict
      [] OTHER -> None

RequiredPresent(data) ==
    \A L \in ListKeys \cap DOMAIN data :
        \A i \in DOMAIN data[L] : RequiredOf(L) \subseteq DOMAIN data[L][i]

\* what from_json made of the keys of j_data: unknown ones dropped, known ones
\* kept, missing ones replaced by the documented default
KeysDefaulted ==
    /\ DOMAIN j_res.ast = AstFields
    /\ \A f \in {"diagram_type", "direction", "metadata"} :
          j_res.ast[f] = IF f \in DOMAIN j_data THEN j_data[f]
                         ELSE DocumentedDefault(f)
    /\ \A L \in ListKeys :
          IF L \notin DOMAIN j_data
          THEN j_res.ast[L] = DocumentedDefault(L)
          ELSE /\ Len(j_res.ast[L]) = Len(j_data[L])
               /\ \A i \in DOMAIN j_data[L] :
                     /\ DOMAIN j_res.ast[L][i] = FieldsOf(L)
                     /\ \A f \in FieldsOf(L) :
                           j_res.ast[L][i][f] =
                               IF f \in DOMAIN j_data[L][i]
                               THEN j_data[L][i][f]
                               ELSE DocumentedDefault(f)

\* C2 as stated: from_json never fails because of unknown or missing keys;
\* unknown keys are dropped and every missing key, at top level or inside a
\* node, edge or group object, is replaced by a default instead of an error.
C2_NeverFails == (j_pc = "loaded") => (j_res.ok /\ KeysDefaulted)

\* C2 as amended: unknown keys never make from_json fail and are dropped; a
\* missing optional key is replaced by its documented default; from_json fails
\* (TypeError) exactly when a node or group object lacks id or label or an edge
\* object lacks id, source or target.
C2_OptionalDefaults ==
    (j_pc = "loaded") =>
        /\ j_res.ok <=> RequiredPresent(j_data)
        /\ j_res.ok => KeysDefaulted

C2_Witness ==
    /\ j_pc = "loaded" /\ j_res.ok
    /\ "nodes" \in DOMAIN j_data
    /\ \E i \in DOMAIN j_data.nodes :
          /\ "shape" \notin DOMAIN j_data.nodes[i]
          /\ j_ast.nodes[i].shape = "database"
          /\ j_res.ast.nodes[i].shape = "rectangle"

(***************************************************************************)
(* Semantic inference (diagram_ast.py).  A regular expression searched in  *)
(* a label is modelled by the keywords the label contains: for the labels  *)
(* of the model, the patterns of each table that match it.  The tables     *)
(* keep the order of the source; the first matching pattern wins.          *)
(***************************************************************************)
Min(S) == CHOOSE m \in S : \A x \in S : m <= x
Max(S) == CHOOSE m \in S : \A x \in S : m >= x

RolePatternOrder == <<"datastore", "gateway", "queue", "cache", "load_balancer",
                      "actor", "external", "interface">>
ProtocolPatternOrder == <<"mTLS", "HTTPS", "HTTP", "gRPC", "AMQP", "MQTT", "REST",
                          "GraphQL", "WebSocket", "TLS", "TCP", "JDBC", "SOAP",
                          "UDP", "Kafka">>
ZonePatternOrder == <<"internal", "external", "dmz", "cloud", "trust_boundary">>

\* re.search(pattern, label) over _ROLE_PATTERNS, for the labels of the model
RolePatternsMatching(label) ==
    CASE label = "API Gateway"          -> {"gateway", "interface"}
      [] label = "External Partner API" -> {"external", "interface"}
      [] label = "Redis Cache"          -> {"cache"}
      [] label = "User"                 -> {"actor"}
      [] OTHER                          -> {}

\* re.search(r'(?i)\b(actor|user)\b', label)
MentionsActorOrUser(label) == label \in {"User"}

\* re.search(pattern, label) over _PROTOCOL_PATTERNS
ProtocolPatternsMatching(label) ==
    CASE label = "HTTPS query"    -> {"HTTPS"}
      [] label = "mTLS over TLS"  -> {"mTLS", "TLS"}
      [] label = "REST over HTTP" -> {"HTTP", "REST"}
      [] OTHER                    -> {}

\* re.search(pattern, label) over _ZONE_PATTERNS
ZonePatternsMatching(label) ==
    CASE label = "DMZ"          -> {"dmz"}
      [] label = "Internal AWS" -> {"internal", "cloud"}
      [] OTHER                  -> {}

\* the first entry of an ordered pattern table among those that match
FirstMatch(order, hits, default) ==
    LET idx == {i \in DOMAIN order : order[i] \in hits}
    IN  IF idx = {} THEN default ELSE order[Min(idx)]

infer_node_role(label, shape) ==
    IF shape = "database" THEN "datastore"
    ELSE IF shape = "diamond" THEN "decision"
    ELSE IF shape = "circle" /\ MentionsActorOrUser(label) THEN "actor"
    ELSE FirstMatch(RolePatternOrder, RolePatternsMatching(label), "service")

infer_edge_protocol(label) ==
    IF label = "" THEN ""
    ELSE FirstMatch(ProtocolPatternOrder, ProtocolPatternsMatching(label), "")

infer_zone_type(label) ==
    IF label = "" THEN ""
    ELSE FirstMatch(ZonePatternOrder, ZonePatternsMatching(label), "")

\* str.lower() on the strings of the model
Lower(c) ==
    CASE c = "#FF0000" -> "#ff0000"
      [] c = "#FFFFFF" -> "#ffffff"
      [] c = "NONE" -> "none"
      [] c = "doubleEllipse" -> "doubleellipse"
      [] c = "HTTPS" -> "https"
      [] c = "HTTP" -> "http"
      [] c = "AMQP" -> "amqp"
      [] c = "MTLS" -> "mtls"
      [] OTHER -> c

\* Python truthiness of an Optional[str]
Truthy(v) == v # None /\ v # ""

infer_color_legend(nodes, groups) ==
    LET counted(c) == {i \in DOMAIN nodes :
                          /\ Truthy(nodes[i].fill_color) /\ nodes[i].role # ""
                          /\ Lower(nodes[i].fill_color) = c}
        nodeColors == {Lower(nodes[i].fill_color) :
                          i \in {k \in DOMAIN nodes :
                                    Truthy(nodes[k].fill_color) /\ nodes[k].role # ""}}
        rolesOf(c) == {nodes[i].role : i \in counted(c)}
        count(c, r) == Cardinality({i \in counted(c) : nodes[i].role = r})
        first(c, r) == Min({i \in counted(c) : nodes[i].role = r})
        \* max(roles, key=roles.get): the first inserted role of greatest count
        dominant(c) == CHOOSE r \in rolesOf(c) :
                          \A q \in rolesOf(c) :
                              \/ count(c, r) > count(c, q)
                              \/ count(c, r) = count(c, q) /\ first(c, r) <= first(c, q)
        zoned == {i \in DOMAIN groups :
                     Truthy(groups[i].fill_color) /\ groups[i].zone_type # ""}
        groupColors == {Lower(groups[i].fill_color) : i \in zoned}
        lastGroup(c) == Max({i \in zoned : Lower(groups[i].fill_color) = c})
    IN  [c \in nodeColors \cup groupColors |->
            IF c \in groupColors THEN groups[lastGroup(c)].zone_type
            ELSE dominant(c)]

\* metadata.setdefault('color_legend', {}).update(legend), when legend is non-empty
WithLegend(metadata, legend) ==
    IF legend = EmptyDict THEN metadata
    ELSE ("color_legend" :> (legend @@ Get(metadata, "color_legend", EmptyDict)))
         @@ metadata

\* enrich_ast with the "if not node.role" guard left out
enrich_ast_reinfers(ast) ==
    LET nodes == [i \in DOMAIN ast.nodes |->
                    [ast.nodes[i] EXCEPT !.role =
                        infer_node_role(ast.nodes[i].label, ast.nodes[i].shape)]]
        edges == [i \in DOMAIN ast.edges |->
                    IF ast.edges[i].protocol = ""
                    THEN [ast.edges[i] EXCEPT !.protocol =
                              infer_edge_protocol(ast.edges[i].label)]
                    ELSE ast.edges[i]]
        groups == [i \in DOMAIN ast.groups |->
                    IF ast.groups[i].zone_type = ""
                    THEN [ast.groups[i] EXCEPT !.zone_type =
                              infer_zone_type(ast.groups[i].label)]
                    ELSE ast.groups[i]]
    IN  [ast EXCEPT !.nodes = nodes, !.edges = edges, !.groups = groups,
                    !.metadata = WithLegend(@, infer_color_legend(nodes, groups))]

enrich_ast(ast) ==
    LET nodes == [i \in DOMAIN ast.nodes |->
                    IF ast.nodes[i].role = ""
                    THEN [ast.nodes[i] EXCEPT !.role =
                              infer_node_role(ast.nodes[i].label, ast.nodes[i].shape)]
                    ELSE ast.nodes[i]]
        edges == [i \in DOMAIN ast.edges |->
                    IF ast.edges[i].protocol = ""
                    THEN [ast.edges[i] EXCEPT !.protocol =
                              infer_edge_protocol(ast.edges[i].label)]
                    ELSE ast.edges[i]]
        groups == [i \in DOMAIN ast.groups |->
                    IF ast.groups[i].zone_type = ""
                    THEN [ast.groups[i] EXCEPT !.zone_type =
                              infer_zone_type(ast.groups[i].label)]
                    ELSE ast.groups[i]]
    IN  [ast EXCEPT !.nodes = nodes, !.edges = edges, !.groups = groups,
                    !.metadata = WithLegend(@, infer_color_legend(nodes, groups))]

(***************************************************************************)
(* The enrichment part as a state machine: an AST comes out of an          *)
(* extractor or out of a file (roles, protocols and zones may already be   *)
(* set) and enrich_ast is applied to it, in place, again and again.        *)
(***************************************************************************)
EnrichNodeSamples ==
    { DiagramNode([id |-> "A", label |-> "API Gateway", fill_color |-> "#FF0000"]),
      DiagramNode([id |-> "B", label |-> "Orders", shape |-> "database",
                   fill_color |-> "#ff0000"]),
      DiagramNode([id |-> "C", label |-> "Orders", role |-> "cache",
                   fill_color |-> "#ff0000"]),
      DiagramNode([id |-> "D", label |-> "User", shape |-> "circle"]) }

EnrichEdgeSamples ==
    { DiagramEdge([id |-> "edge_1", source |-> "A", target |-> "B",
                   label |-> "HTTPS query"]),
      DiagramEdge([id |-> "edge_2", source |-> "B", target |-> "A",
                   label |-> "mTLS over TLS", protocol |-> "TCP"]),
      DiagramEdge([id |-> "edge_3", source |-> "A", target |-> "C"]) }

EnrichGroupSamples ==
    { DiagramGroup([id |-> "g1", label |-> "DMZ", fill_color |-> "#FF0000"]),
      DiagramGroup([id |-> "g2", label |-> "Team", fill_color |-> "#00ff00",
                    zone_type |-> "cloud"]) }

EnrichMetadataSamples ==
    { EmptyDict, "color_legend" :> ("#ff0000" :> "legacy") }

EInit ==
    /\ e_ast \in { DiagramAST([nodes |-> ns, edges |-> es, groups |-> gs,
                                metadata |-> md]) :
                      ns \in SeqsUpTo(EnrichNodeSamples, MaxEnrichNodes),
                      es \in SeqsUpTo(EnrichEdgeSamples, MaxList),
                      gs \in SeqsUpTo(EnrichGroupSamples, MaxList),
                      md \in EnrichMetadataSamples }
    /\ e_orig = e_ast
    /\ e_prev = e_ast
    /\ e_calls = 0
    /\ IdleBut("enrich")

EnrichAst ==
    /\ e_calls < MaxEnrichCalls
    /\ e_prev' = e_ast
    /\ e_ast' = enrich_ast(e_ast)
    /\ e_calls' = e_calls + 1
    /\ UNCHANGED <<e_orig, notEnrich>>

ENext == EnrichAst

SpecEnrich == EInit /\ [][ENext]_vars

\* the semantic fields the enrichment pass fills in
Semantics(ast) ==
    [roles |-> [i \in DOMAIN ast.nodes |-> ast.nodes[i].role],
     protocols |-> [i \in DOMAIN ast.edges |-> ast.edges[i].protocol],
     zones |-> [i \in DOMAIN ast.groups |-> ast.groups[i].zone_type],
     legend |-> Get(ast.metadata, "color_legend", None)]

detect_direction(nodes) ==
    IF Len(nodes) < 2 THEN "TB"
    ELSE LET xs == {nodes[i].x : i \in {k \in DOMAIN nodes : nodes[k].x # 0}}
             ys == {nodes[i].y : i \in {k \in DOMAIN nodes : nodes[k].y # 0}}
         IN  IF xs = {} \/ ys = {} THEN "TB"
             ELSE LET x_spread == Max(xs) - Min(xs)
                      y_spread == Max(ys) - Min(ys)
                  IN  IF 2 * x_spread > 3 * y_spread THEN "LR" ELSE "TB"

\* the coordinates nodes are drawn from
Coords == {0, 10, 25, 100}

At(px, py) == DiagramNode([id |-> "n", label |-> "N", x |-> px, y |-> py])

DInit ==
    /\ d_nodes \in SeqsUpTo({At(px, py) : px \in Coords, py \in Coords}, MaxDirNodes)
    /\ d_dir = Idle
    /\ IdleBut("direction")

DetectDirection ==
    /\ d_dir = Idle
    /\ d_dir' = detect_direction(d_nodes)
    /\ UNCHANGED <<d_nodes, notDir>>

DNext == DetectDirection

SpecDirection == DInit /\ [][DNext]_vars

\* the nodes that carry a position (0 on both axes means unpositioned)
Positioned(nodes) == {i \in DOMAIN nodes : nodes[i].x # 0 \/ nodes[i].y # 0}
SpreadX(nodes, I) == Max({nodes[i].x : i \in I}) - Min({nodes[i].x : i \in I})
SpreadY(nodes, I) == Max({nodes[i].y : i \in I}) - Min({nodes[i].y : i \in I})
ClaimedDirection(nodes, I) ==
    IF Cardinality(I) >= 2 /\ 2 * SpreadX(nodes, I) > 3 * SpreadY(nodes, I)
    THEN "LR" ELSE "TB"

\* C4: detect_direction returns LR exactly when the horizontal spread of the
\* positioned nodes exceeds 1.5 times their vertical spread, and TB otherwise,
\* with TB whenever fewer than 2 nodes are positioned; nodes at
\* (0,0),(100,0),(0,10) give LR (x-spread 100 > 1.5*10) and nodes at
\* (0,0),(0,100),(10,0) give TB.
C4_Direction ==
    (d_dir # Idle) =>
        /\ d_dir = ClaimedDirection(d_nodes, Positioned(d_nodes))
        /\ d_nodes = <<At(0, 0), At(100, 0), At(0, 10)>> => d_dir = "LR"
        /\ d_nodes = <<At(0, 0), At(0, 100), At(10, 0)>> => d_dir = "TB"

(***************************************************************************)
(* The AST quality gate (eval_ast.py).  An issue is a record holding the   *)
(* parameters of the message the code formats.                             *)
(***************************************************************************)
RECURSIVE Flatten(_)
Flatten(ss) == IF ss = <<>> THEN <<>> ELSE Head(ss) \o Flatten(Tail(ss))

IssueIf(cond, issue) == IF cond THEN <<issue>> ELSE <<>>

GenericLabels == {"Node_3", "node_12"}  \* labels GENERIC_LABEL_RE matches
BlankLabels == {"", "  "}               \* labels whose strip() is empty
VALID_SHAPES ==
    {"rectangle", "stadium", "database", "diamond", "circle", "parallelogram", "hexagon"}
VALID_EDGE_STYLES == {"solid", "dashed", "dotted", "thick"}
VALID_DIAGRAM_TYPES == {"flowchart", "sequence", "class", "state", "er"}
VALID_DIRECTIONS == {"TB", "BT", "LR", "RL"}

_check_schema(data) ==
    LET dt == Get(data, "diagram_type", "")
        direction == Get(data, "direction", "")
        nodes == Get(data, "nodes", <<>>)
        edges == Get(data, "edges", <<>>)
        OfNode(i) ==
            LET node == nodes[i]
                nid == Get(node, "id", "?")
            IN  IssueIf(Get(node, "id", "") = "", [kind |-> "node-missing-id", i |-> i])
                \o IssueIf("label" \notin DOMAIN node,
                           [kind |-> "node-missing-label", i |-> i, id |-> nid])
                \o IssueIf(Get(node, "shape", "rectangle") \notin VALID_SHAPES,
                           [kind |-> "node-unknown-shape", i |-> i, id |-> nid])
        OfEdge(i) ==
            LET edge == edges[i]
                eid == Get(edge, "id", "?")
            IN  IssueIf(Get(edge, "source", "") = "",
                        [kind |-> "edge-missing-source", i |-> i, id |-> eid])
                \o IssueIf(Get(edge, "target", "") = "",
                           [kind |-> "edge-missing-target", i |-> i, id |-> eid])
                \o IssueIf(Get(edge, "style", "solid") \notin VALID_EDGE_STYLES,
                           [kind |-> "edge-unknown-style", i |-> i, id |-> eid])
    IN  IssueIf("nodes" \notin DOMAIN data, [kind |-> "missing-nodes"])
        \o IssueIf("edges" \notin DOMAIN data, [kind |-> "missing-edges"])
        \o IssueIf(dt # "" /\ dt \notin VALID_DIAGRAM_TYPES,
                   [kind |-> "unknown-diagram-type", value |-> dt])
        \o IssueIf(direction # "" /\ direction \notin VALID_DIRECTIONS,
                   [kind |-> "unknown-direction", value |-> direction])
        \o Flatten([i \in DOMAIN nodes |-> OfNode(i)])
        \o Flatten([i \in DOMAIN edges |-> OfEdge(i)])

_check_generic_labels(data) ==
    LET nodes == Get(data, "nodes", <<>>)
        OfNode(i) ==
            LET label == Get(nodes[i], "label", "")
                nid == Get(nodes[i], "id", "?")
            IN  IF label \in GenericLabels
                THEN <<[kind |-> "generic-label", node |-> nid, label |-> label]>>
                ELSE IssueIf(label \in BlankLabels, [kind |-> "empty-label", node |-> nid])
    IN  Flatten([i \in DOMAIN nodes |-> OfNode(i)])

\* {n['id'] for n in data.get('nodes', []) if 'id' in n}
NodeIdsOf(data) ==
    LET nodes == Get(data, "nodes", <<>>)
    IN  {nodes[i].id : i \in {k \in DOMAIN nodes : "id" \in DOMAIN nodes[k]}}

\* sorted(ids): the node ids of the model in Python's string order
IdOrder == <<"A", "B", "C">>
Sorted(ids) == SelectSeq(IdOrder, LAMBDA x : x \in ids)

_check_orphan_nodes_sources(data) ==
    LET edges == Get(data, "edges", <<>>)
        groups == Get(data, "groups", <<>>)
        connected == {Get(edges[i], "source", "") : i \in DOMAIN edges}
        orphans == Sorted(NodeIdsOf(data) \ connected)
        group_children == UNION {Range(Get(groups[i], "children", <<>>)) : i \in DOMAIN groups}
        OfOrphan(k) ==
            LET oid == orphans[k]
                first == Min({i \in DOMAIN data.nodes : Get(data.nodes[i], "id", None) = oid})
                label == Get(data.nodes[first], "label", oid)
            IN  IF oid \in group_children
                THEN <<[kind |-> "grouped-no-edges", node |-> oid, label |-> label]>>
                ELSE <<[kind |-> "orphan", node |-> oid, label |-> label]>>
    IN  Flatten([k \in DOMAIN orphans |-> OfOrphan(k)])

_check_orphan_nodes(data) ==
    LET edges == Get(data, "edges", <<>>)
        groups == Get(data, "groups", <<>>)
        connected == {Get(edges[i], "source", "") : i \in DOMAIN edges}
                     \cup {Get(edges[i], "target", "") : i \in DOMAIN edges}
        orphans == Sorted(NodeIdsOf(data) \ connected)
        group_children == UNION {Range(Get(groups[i], "children", <<>>)) : i \in DOMAIN groups}
        OfOrphan(k) ==
            LET oid == orphans[k]
                first == Min({i \in DOMAIN data.nodes : Get(data.nodes[i], "id", None) = oid})
                label == Get(data.nodes[first], "label", oid)
            IN  IF oid \in group_children
                THEN <<[kind |-> "grouped-no-edges", node |-> oid, label |-> label]>>
                ELSE <<[kind |-> "orphan", node |-> oid, label |-> label]>>
    IN  Flatten([k \in DOMAIN orphans |-> OfOrphan(k)])

_check_edge_validity_source_only(data) ==
    LET edges == Get(data, "edges", <<>>)
        node_ids == NodeIdsOf(data)
        OfEdge(i) ==
            LET eid == Get(edges[i], "id", "?")
                src == Get(edges[i], "source", "")
                tgt == Get(edges[i], "target", "")
            IN  IssueIf(src # "" /\ src \notin node_ids,
                        [kind |-> "source", edge |-> eid, name |-> src])
                \o IssueIf(src = tgt /\ src # "",
                           [kind |-> "self-loop", edge |-> eid, name |-> src])
    IN  Flatten([i \in DOMAIN edges |-> OfEdge(i)])

_check_edge_validity(data) ==
    LET edges == Get(data, "edges", <<>>)
        node_ids == NodeIdsOf(data)
        OfEdge(i) ==
            LET eid == Get(edges[i], "id", "?")
                src == Get(edges[i], "source", "")
                tgt == Get(edges[i], "target", "")
            IN  IssueIf(src # "" /\ src \notin node_ids,
                        [kind |-> "source", edge |-> eid, name |-> src])
                \o IssueIf(tgt # "" /\ tgt \notin node_ids,
                           [kind |-> "target", edge |-> eid, name |-> tgt])
                \o IssueIf(src = tgt /\ src # "",
                           [kind |-> "self-loop", edge |-> eid, name |-> src])
    IN  Flatten([i \in DOMAIN edges |-> OfEdge(i)])

_check_duplicate_edges(data) ==
    LET edges == Get(data, "edges", <<>>)
        Key(i) == <<Get(edges[i], "source", ""), Get(edges[i], "target", "")>>
        \* seen[key] is the id of the first edge with that key
        OfEdge(i) ==
            LET earlier == {k \in 1..(i - 1) : Key(k) = Key(i)}
            IN  IssueIf(earlier # {},
                        [kind |-> "duplicate", edge |-> Get(edges[i], "id", "?"),
                         of |-> Get(edges[Min(earlier \cup {i})], "id", "?")])
    IN  Flatten([i \in DOMAIN edges |-> OfEdge(i)])

_check_empty_graph(data) ==
    LET nodes == Get(data, "nodes", <<>>)
        edges == Get(data, "edges", <<>>)
    IN  IF nodes = <<>> /\ edges = <<>> THEN <<[kind |-> "empty"]>>
        ELSE IssueIf(nodes = <<>>, [kind |-> "edges-without-nodes"])

Abs(n) == IF n < 0 THEN -n ELSE n

\* {n['id']: n for n in nodes if 'id' in n}: keys in order of first insertion,
\* each holding the last node with that id
NodesById(nodes) ==
    LET with == {i \in DOMAIN nodes : "id" \in DOMAIN nodes[i]}
        firsts == SelectSeq([i \in DOMAIN nodes |-> i],
                            LAMBDA i : i \in with
                                       /\ \A k \in with : nodes[k].id = nodes[i].id => k >= i)
    IN  [keys |-> [k \in DOMAIN firsts |-> nodes[firsts[k]].id],
         at |-> [id \in {nodes[i].id : i \in with} |->
                    nodes[Max({i \in with : nodes[i].id = id})]]]

RECURSIVE SetToSeq(_)
SetToSeq(S) == IF S = {} THEN <<>> ELSE LET x == CHOOSE y \in S : TRUE
                                        IN  <<x>> \o SetToSeq(S \ {x})

EdgeKeys(d) ==
    LET edges == Get(d, "edges", <<>>)
    IN  {<<Get(edges[i], "source", ""), Get(edges[i], "target", "")>> : i \in DOMAIN edges}

\* The removed edges are listed in the iteration order of a Python set; no
\* caller depends on that order.
_check_cv_drift(final, partial) ==
    LET partial_nodes == NodesById(Get(partial, "nodes", <<>>))
        final_nodes == NodesById(Get(final, "nodes", <<>>))
        OfNode(k) ==
            LET nid == partial_nodes.keys[k]
                pnode == partial_nodes.at[nid]
            IN  IF nid \notin DOMAIN final_nodes.at
                THEN <<[kind |-> "node-removed", node |-> nid,
                        label |-> Get(pnode, "label", "")]>>
                ELSE LET fnode == final_nodes.at[nid]
                         px == Get(pnode, "x", 0)
                         py == Get(pnode, "y", 0)
                         fx == Get(fnode, "x", 0)
                         fy == Get(fnode, "y", 0)
                     IN  IssueIf(<<px, py>> # <<0, 0>>
                                 /\ (Abs(fx - px) > 5 \/ Abs(fy - py) > 5),
                                 [kind |-> "node-moved", node |-> nid])
        removed == SetToSeq(EdgeKeys(partial) \ EdgeKeys(final))
    IN  Flatten([k \in DOMAIN partial_nodes.keys |-> OfNode(k)])
        \o [k \in DOMAIN removed |-> [kind |-> "edge-removed", edge |-> removed[k]]]

\* results as evaluate creates it (the 'file' entry is the path, left out)
NewResults == [checks |-> EmptyDict, passed |-> TRUE, total_errors |-> 0, total_warnings |-> 0]

ErrorsChecks(data) ==
    << <<"schema", _check_schema(data)>>,
       <<"generic_labels", _check_generic_labels(data)>>,
       <<"edge_validity", _check_edge_validity(data)>>,
       <<"duplicate_edges", _check_duplicate_edges(data)>>,
       <<"empty_graph", _check_empty_graph(data)>> >>

WarningChecks(data, partial) ==
    << <<"orphan_nodes", _check_orphan_nodes(data)>> >>
    \o [k \in DOMAIN partial |-> <<"cv_drift", _check_cv_drift(data, partial[k])>>]

\* body of the loop over errors_checks
RecordError(results, name, issues) ==
    [results EXCEPT
        !.checks = (name :> [status |-> IF issues # <<>> THEN "FAIL" ELSE "PASS",
                             level |-> "error", issues |-> issues]) @@ @,
        !.passed = IF issues # <<>> THEN FALSE ELSE @,
        !.total_errors = IF issues # <<>> THEN @ + Len(issues) ELSE @]

RecordWarning_failing(results, name, issues) ==
    [results EXCEPT
        !.checks = (name :> [status |-> IF issues # <<>> THEN "WARN" ELSE "PASS",
                             level |-> "warning", issues |-> issues]) @@ @,
        !.passed = IF issues # <<>> THEN FALSE ELSE @,
        !.total_warnings = IF issues # <<>> THEN @ + Len(issues) ELSE @]

\* body of the loop over warning_checks
RecordWarning(results, name, issues) ==
    [results EXCEPT
        !.checks = (name :> [status |-> IF issues # <<>> THEN "WARN" ELSE "PASS",
                             level |-> "warning", issues |-> issues]) @@ @,
        !.total_warnings = IF issues # <<>> THEN @ + Len(issues) ELSE @]

RECURSIVE ErrorLoop(_, _)
ErrorLoop(results, checks) ==
    IF checks = <<>> THEN results
    ELSE ErrorLoop(RecordError(results, Head(checks)[1], Head(checks)[2]), Tail(checks))

RECURSIVE WarningLoop(_, _)
WarningLoop(results, checks) ==
    IF checks = <<>> THEN results
    ELSE WarningLoop(RecordWarning(results, Head(checks)[1], Head(checks)[2]), Tail(checks))

Summary(data, results) ==
    [nodes |-> Len(Get(data, "nodes", <<>>)),
     edges |-> Len(Get(data, "edges", <<>>)),
     groups |-> Len(Get(data, "groups", <<>>)),
     generic_labels_remaining |->
        Len(Get(Get(results.checks, "generic_labels", EmptyDict), "issues", <<>>)),
     orphan_nodes |->
        Len(Get(Get(results.checks, "orphan_nodes", EmptyDict), "issues", <<>>))]

(***************************************************************************)
(* The gate as a state machine: the files are loaded, the loop over the    *)
(* error-level checks runs, then the loop over the warning-level checks    *)
(* and the summary.                                                        *)
(***************************************************************************)
EvalNodeSamples ==
    {[id |-> "A", label |-> "Api"],
     [id |-> "B", label |-> "Db", shape |-> "database", x |-> 10, y |-> 10],
     [id |-> "C", label |-> "Cache", x |-> 40, y |-> 10],
     [id |-> "B", x |-> 40, y |-> 10],
     [label |-> "Node_3", shape |-> "cloud"]}

EvalEdgeSamples ==
    {[id |-> "e1", source |-> "A", target |-> "B"],
     [id |-> "e2", source |-> "A", target |-> "Z"],
     [id |-> "e3", source |-> "B", target |-> "B", style |-> "dashed"],
     [target |-> "B", source |-> "", style |-> "wavy"]}

EvalGroupsSample == <<[id |-> "g1", label |-> "Zone", children |-> <<"C", "B">>]>>

PartialSample ==
    [nodes |-> <<[id |-> "B", label |-> "Db", x |-> 12, y |-> 10],
                 [id |-> "A", label |-> "Node_1"]>>,
     edges |-> <<[id |-> "p1", source |-> "A", target |-> "B"]>>]

\* The file contents evaluate may load: with the top-level keys of an AST, with
\* groups and a partial AST beside it, or with no 'nodes' key at all.
EvalShapes == {"plain", "grouped", "nodeless"}

EvalData(shape, ns, es) ==
    CASE shape = "plain" ->
            [diagram_type |-> "flowchart", direction |-> "LR", nodes |-> ns, edges |-> es]
      [] shape = "grouped" -> [nodes |-> ns, edges |-> es, groups |-> EvalGroupsSample]
      [] shape = "nodeless" -> [diagram_type |-> "mindmap", direction |-> "down", edges |-> es]

VInit ==
    /\ v_pc = "loaded"
    /\ \E shape \in EvalShapes :
        \E ns \in SeqsUpTo(EvalNodeSamples, IF shape = "nodeless" THEN 0 ELSE MaxEvalNodes) :
        \E es \in SeqsUpTo(EvalEdgeSamples, MaxEvalEdges) :
            /\ v_data = EvalData(shape, ns, es)
            /\ v_partial = IF shape = "grouped" THEN <<PartialSample>> ELSE <<>>
    /\ v_results = NewResults
    /\ IdleBut("eval")

EvalErrorChecks ==
    /\ v_pc = "loaded"
    /\ v_results' = ErrorLoop(v_results, ErrorsChecks(v_data))
    /\ v_pc' = "errors"
    /\ UNCHANGED <<v_data, v_partial, notEval>>

EvalWarningChecks ==
    /\ v_pc = "errors"
    /\ LET results == WarningLoop(v_results, WarningChecks(v_data, v_partial))
       IN  v_results' = ("summary" :> Summary(v_data, results)) @@ results
    /\ v_pc' = "done"
    /\ UNCHANGED <<v_data, v_partial, notEval>>

VNext == EvalErrorChecks \/ EvalWarningChecks

SpecEval == VInit /\ [][VNext]_vars

(***************************************************************************)
(* Claims about the quality gate.                                          *)
(***************************************************************************)
RECURSIVE SumLen(_)
SumLen(checks) == IF checks = <<>> THEN 0 ELSE Len(Head(checks)[2]) + SumLen(Tail(checks))

Gated == v_pc \in {"errors", "done"}

\* C5: evaluate returns passed = true exactly when total_errors = 0;
\* total_errors is the number of issues of the five error-level checks and
\* total_warnings the number of issues of the warning-level checks, which
\* never change passed.
C5_PassedIffNoErrors ==
    /\ Gated =>
        /\ v_results.passed <=> (v_results.total_errors = 0)
        /\ v_results.total_errors = SumLen(ErrorsChecks(v_data))
        /\ DOMAIN ErrorsChecks(v_data) = 1..5
    /\ v_pc = "done" =>
        /\ v_results.total_warnings = SumLen(WarningChecks(v_data, v_partial))
        /\ v_results.passed <=> (SumLen(ErrorsChecks(v_data)) = 0)
        /\ \A n \in {"orphan_nodes", "cv_drift"} \cap DOMAIN v_results.checks :
              v_results.checks[n].level = "warning"

\* an AST with no error-level issue and several warnings passes the gate
C5_Witness ==
    /\ v_pc = "done"
    /\ v_results.passed
    /\ v_results.total_errors = 0
    /\ v_results.total_warnings >= 2
    /\ "cv_drift" \in DOMAIN v_results.checks

EdgeValidityIssues == v_results.checks["edge_validity"].issues
GateEdges == Get(v_data, "edges", <<>>)
GateNodeIds == {n.id : n \in {m \in Range(Get(v_data, "nodes", <<>>)) : "id" \in DOMAIN m}}
Endpoint(i, role) == Get(GateEdges[i], role, "")
Roles == {"source", "target"}
Names(i, role, issue) ==
    /\ issue.kind = role
    /\ issue.name = Endpoint(i, role)
    /\ issue.edge = Get(GateEdges[i], "id", "?")
Unresolved == {p \in (DOMAIN GateEdges) \X Roles : Endpoint(p[1], p[2]) \notin GateNodeIds}
UnresolvedNamed == {p \in Unresolved : Endpoint(p[1], p[2]) # ""}
SelfLoops == {i \in DOMAIN GateEdges : Endpoint(i, "source") = Endpoint(i, "target")
                                        /\ Endpoint(i, "source") # ""}
IssuesOfKind(issues, kinds) == {k \in DOMAIN issues : issues[k].kind \in kinds}

\* C6 as stated: edge_validity reports one error, naming the id, for each
\* edge endpoint (source or target) that is not the id of a node, and
\* nothing for an edge whose two distinct endpoints both resolve.
C6_EveryUnresolvedEndpoint ==
    Gated =>
        /\ \A p \in Unresolved :
              \E k \in DOMAIN EdgeValidityIssues : Names(p[1], p[2], EdgeValidityIssues[k])
        /\ (Unresolved = {} /\ SelfLoops = {}) => EdgeValidityIssues = <<>>

\* C6, amended: edge_validity reports exactly one error, naming the id, for
\* each non-empty edge endpoint that is not the id of a node; an empty
\* endpoint gets no edge_validity error (the schema check reports it as
\* missing); an edge whose source equals its target gets one further
\* self-loop error; there are no other edge_validity errors, so a single
\* edge whose only unresolved endpoint is Z yields exactly one error, naming Z.
C6_NonEmptyUnresolvedEndpoint ==
    Gated =>
        /\ \A p \in UnresolvedNamed :
              \E k \in DOMAIN EdgeValidityIssues : Names(p[1], p[2], EdgeValidityIssues[k])
        /\ Cardinality(IssuesOfKind(EdgeValidityIssues, Roles)) = Cardinality(UnresolvedNamed)
        /\ Cardinality(IssuesOfKind(EdgeValidityIssues, {"self-loop"})) = Cardinality(SelfLoops)
        /\ Len(EdgeValidityIssues) = Cardinality(UnresolvedNamed) + Cardinality(SelfLoops)
        /\ \A p \in Unresolved \ UnresolvedNamed :
              \E k \in DOMAIN v_results.checks["schema"].issues :
                  /\ v_results.checks["schema"].issues[k].kind = "edge-missing-" \o p[2]
                  /\ v_results.checks["schema"].issues[k].i = p[1]
        /\ (Len(GateEdges) = 1 /\ UnresolvedNamed = {<<1, "target">>}
                /\ Endpoint(1, "target") = "Z")
            => EdgeValidityIssues = <<[kind |-> "target", edge |-> GateEdges[1].id, name |-> "Z"]>>

\* the single edge A -> Z of an AST that has node A and no node Z
C6_Witness ==
    /\ v_pc = "done"
    /\ Len(GateEdges) = 1
    /\ Endpoint(1, "source") = "A" /\ "A" \in GateNodeIds
    /\ Endpoint(1, "target") = "Z"
    /\ Len(EdgeValidityIssues) = 1
    /\ EdgeValidityIssues[1].name = "Z"

OrphanIssues == v_results.checks["orphan_nodes"].issues
Incident ==
    UNION {{GateEdges[i][r] : r \in Roles \cap DOMAIN GateEdges[i]} : i \in DOMAIN GateEdges}
GroupChildren ==
    UNION {Range(g.children) : g \in Range(Get(v_data, "groups", <<>>))}

\* C7: orphan_nodes reports exactly one warning for each node id that is
\* neither the source nor the target of any edge and no warning for any
\* other node; membership in a group changes only the wording; with nodes
\* [A,B,C] and the single edge A->B exactly C is flagged.
C7_OrphanNodes ==
    v_pc = "done" =>
        /\ \A id \in GateNodeIds :
              Cardinality({k \in DOMAIN OrphanIssues : OrphanIssues[k].node = id})
                = IF id \in Incident THEN 0 ELSE 1
        /\ \A k \in DOMAIN OrphanIssues :
              /\ OrphanIssues[k].node \in GateNodeIds \ Incident
              /\ OrphanIssues[k].kind =
                    IF OrphanIssues[k].node \in GroupChildren THEN "grouped-no-edges" ELSE "orphan"
        /\ v_results.checks["orphan_nodes"].level = "warning"
        /\ (GateNodeIds = {"A", "B", "C"} /\ Len(GateEdges) = 1
                /\ Endpoint(1, "source") = "A" /\ Endpoint(1, "target") = "B")
            => (Len(OrphanIssues) = 1 /\ OrphanIssues[1].node = "C")

\* nodes [A,B,C] with the single edge A->B: C is the one orphan
C7_Witness ==
    /\ v_pc = "done"
    /\ Len(Get(v_data, "nodes", <<>>)) = 3
    /\ GateNodeIds = {"A", "B", "C"}
    /\ Len(GateEdges) = 1
    /\ Endpoint(1, "source") = "A" /\ Endpoint(1, "target") = "B"
    /\ Len(OrphanIssues) = 1
    /\ OrphanIssues[1].node = "C"

(***************************************************************************)
(* The Draw.io extractor (drawio_to_ast.py).  A style string is the        *)
(* sequence of its ';'-separated tokens, <<key, value>> or <<key>>; the    *)
(* text of a page is described by what the code asks of it: whether it     *)
(* holds the markers '<mxGraphModel' and '<mxCell', how the XML parser     *)
(* fares on it, and the mxCell elements a successful parse yields.         *)
(***************************************************************************)
parse_style_string(style) ==
    [key \in {style[i][1] : i \in DOMAIN style} |->
        LET last == style[Max({i \in DOMAIN style : style[i][1] = key})]
        IN  IF Len(last) = 2 THEN last[2] ELSE "true"]

\* clean_label on the cell values of the model
clean_label(value) ==
    CASE value = "<b>DMZ</b>"       -> "DMZ"
      [] value = "HTTPS<br>query"   -> "HTTPS query"
      [] value = "<br/>"            -> ""
      [] value = "say &quot;hi&quot;" -> "say 'hi'"
      [] OTHER                      -> value

ShapeMappingOrder ==
    <<"cylinder", "database", "datastore", "rhombus", "diamond",
      "mxgraph.flowchart.decision", "ellipse", "doubleellipse",
      "mxgraph.flowchart.terminator", "mxgraph.flowchart.start", "parallelogram",
      "mxgraph.flowchart.data", "hexagon", "process", "mxgraph.flowchart.process">>

ShapeMapping(key) ==
    CASE key \in {"cylinder", "database", "datastore"} -> "database"
      [] key \in {"rhombus", "diamond", "mxgraph.flowchart.decision"} -> "diamond"
      [] key \in {"ellipse", "doubleellipse", "mxgraph.flowchart.start"} -> "circle"
      [] key = "mxgraph.flowchart.terminator" -> "stadium"
      [] key \in {"parallelogram", "mxgraph.flowchart.data"} -> "parallelogram"
      [] key = "hexagon" -> "hexagon"
      [] key \in {"process", "mxgraph.flowchart.process"} -> "rectangle"

\* the keys of shape_mappings that occur in the lower-cased shape, for the shapes of the model
ShapeKeysIn(shape) ==
    CASE shape = "cylinder3"                  -> {"cylinder"}
      [] shape = "doubleellipse"              -> {"ellipse", "doubleellipse"}
      [] shape = "mxgraph.flowchart.decision" -> {"mxgraph.flowchart.decision"}
      [] shape = "mxgraph.flowchart.process"  -> {"process", "mxgraph.flowchart.process"}
      [] OTHER                                -> {}

detect_shape(style) ==
    LET hits == ShapeKeysIn(Lower(Get(style, "shape", "")))
    IN  IF hits # {} THEN ShapeMapping(FirstMatch(ShapeMappingOrder, hits, ""))
        ELSE IF Get(style, "rounded", None) = "1" THEN "stadium"
        ELSE IF "ellipse" \in DOMAIN style THEN "circle"
        ELSE IF "swimlane" \in DOMAIN style \/ Get(style, "swimlane", None) = "1" THEN "group"
        ELSE IF "group" \in DOMAIN style \/ Get(style, "group", None) = "1" THEN "group"
        ELSE "rectangle"

\* int(stroke_width) >= 3, with ValueError swallowed, for the widths of the model
ThickStroke(stroke_width) == stroke_width \in {"3", "4"}

detect_edge_style(style) ==
    IF Get(style, "dashed", None) = "1" \/ "dashed" \in DOMAIN style THEN "dashed"
    ELSE IF Get(style, "dotted", None) = "1" THEN "dotted"
    ELSE IF ThickStroke(Get(style, "strokeWidth", "1")) THEN "thick"
    ELSE "solid"

\* arrow.lower() not in ('none', 'open', '')
has_arrow(style, end) ==
    Lower(Get(style, end \o "Arrow", "classic")) \notin {"none", "open", ""}

\* one of the three colours of extract_colors
ColorOf(style, key) ==
    LET c == Get(style, key, "")
    IN  IF c # "" /\ Lower(c) \notin {"none", "default", "", "#ffffff", "white"}
        THEN c ELSE None

\* cell_id[-4:] for the ids of the model
Last4(id) == CASE id = "cell-12345" -> "2345" [] OTHER -> id

\* mxGeometry: the four attributes go through float() one after the other
\* inside one try; bad is the position of the first that float() rejects
\* (0 when there is none), and the assignments before it have happened.
Geometry(cell) ==
    IF cell.geometry = <<>> THEN <<0, 0, 0, 0>>
    ELSE LET g == cell.geometry[1]
         IN  [k \in 1..4 |-> IF g.bad = 0 \/ k < g.bad THEN g.vals[k] ELSE 0]

\* the branch of the cell loop a cell takes; parents holds the keys of
\* parent_children
CellKind(c, parents) ==
    IF c.edge = "1" \/ (Truthy(c.source) /\ Truthy(c.target)) THEN "edge"
    ELSE IF detect_shape(parse_style_string(c.style)) = "group" \/ c.id \in parents
         THEN IF clean_label(c.value) # "" \/ c.id \in parents THEN "group" ELSE "none"
    ELSE IF c.vertex = "1" \/ (clean_label(c.value) # "" /\ c.edge # "1") THEN "node"
    ELSE "none"

\* extract_graph_elements; cells is root.iter('mxCell'), in document order
extract_graph_elements(cells) ==
    LET paired == SelectSeq(cells, LAMBDA c : c.id # "" /\ c.parent # "")
        parents == {paired[i].parent : i \in DOMAIN paired}
        parent_children(p) ==
            LET of == SelectSeq(paired, LAMBDA c : c.parent = p)
            IN  [k \in DOMAIN of |-> of[k].id]
        label(c) == clean_label(c.value)
        shape(c) == detect_shape(parse_style_string(c.style))
        Kind(c) == CellKind(c, parents)
        seen == SelectSeq(cells, LAMBDA c : c.id \notin {"0", "1", ""})
        edgeCells == SelectSeq(seen, LAMBDA c : Kind(c) = "edge")
        nodeCells == SelectSeq(seen, LAMBDA c : Kind(c) = "node")
        groupCells == SelectSeq(seen, LAMBDA c : Kind(c) = "group")
        edges == [k \in DOMAIN edgeCells |->
                    LET c == edgeCells[k]
                        style == parse_style_string(c.style)
                    IN  DiagramEdge([id |-> "edge_" \o ToString(k),
                                     source |-> IF Truthy(c.source) THEN c.source ELSE "",
                                     target |-> IF Truthy(c.target) THEN c.target ELSE "",
                                     label |-> label(c),
                                     style |-> detect_edge_style(style),
                                     arrow_start |-> has_arrow(style, "start"),
                                     arrow_end |-> has_arrow(style, "end")])]
        nodes == [k \in DOMAIN nodeCells |->
                    LET c == nodeCells[k]
                        style == parse_style_string(c.style)
                        geo == Geometry(c)
                    IN  DiagramNode([id |-> c.id,
                                     label |-> IF label(c) # "" THEN label(c)
                                               ELSE "Node_" \o Last4(c.id),
                                     shape |-> shape(c),
                                     x |-> geo[1], y |-> geo[2],
                                     width |-> geo[3], height |-> geo[4],
                                     parent_group |-> IF c.parent \notin {"0", "1"}
                                                      THEN c.parent ELSE None,
                                     fill_color |-> ColorOf(style, "fillColor"),
                                     stroke_color |-> ColorOf(style, "strokeColor"),
                                     font_color |-> ColorOf(style, "fontColor")])]
        \* groups is a dict: a repeated id keeps its first position and its last value
        firstGroups == SelectSeq([i \in DOMAIN groupCells |-> i],
                                 LAMBDA i : \A k \in 1..(i - 1) : groupCells[k].id # groupCells[i].id)
        lastOf(gid) == groupCells[Max({i \in DOMAIN groupCells : groupCells[i].id = gid})]
        groupIds == {groupCells[i].id : i \in DOMAIN groupCells}
        \* the children list is the parent_children list itself; the closing loop
        \* over nodes appends to it
        members(gid) ==
            LET of == SelectSeq(nodes, LAMBDA n : Truthy(n.parent_group) /\ n.parent_group = gid)
            IN  [k \in DOMAIN of |-> of[k].id]
        groups == [k \in DOMAIN firstGroups |->
                    LET gid == groupCells[firstGroups[k]].id
                        c == lastOf(gid)
                    IN  DiagramGroup([id |-> gid,
                                      label |-> IF label(c) # "" THEN label(c)
                                                ELSE "Group_" \o Last4(gid),
                                      children |-> parent_children(gid) \o members(gid)])]
    IN  DiagramAST([nodes |-> nodes, edges |-> edges, groups |-> groups,
                    diagram_type |-> "flowchart",
                    direction |-> detect_direction(nodes),
                    metadata |-> [source_format |-> "drawio",
                                  extraction_method |-> "xml_parse"]])

\* decompress_diagram_data on the text of a <diagram> element.  A payload is
\* [enc, text]: "inline" text starts with '<'; "deflate" is Base64 of the raw
\* deflate of the text; "deflate_uri" is Base64 of the raw deflate of the
\* percent-encoded text, whose inflated form holds neither marker; "garbage"
\* is rejected by Base64 or by all six inflate methods.
decompress_diagram_data(payload) ==
    CASE payload.enc = "inline" -> <<payload.text>>
      [] payload.enc = "deflate" ->
            IF payload.text.model_tag \/ payload.text.cell_tag
            THEN <<payload.text>> ELSE <<>>
      [] OTHER -> <<>>

\* extract_diagram_pages; the pages it returns, as a sequence of page texts
extract_diagram_pages(content) ==
    LET PageOf(payload) ==
            IF payload.enc = "blank" THEN <<>>
            ELSE IF payload.enc = "inline" THEN <<payload.text>>
            ELSE decompress_diagram_data(payload)
    IN  CASE content.kind = "model" -> <<content.whole>>
          [] content.kind = "diagrams" ->
                Flatten([i \in DOMAIN content.payloads |-> PageOf(content.payloads[i])])
          [] content.kind = "elements" ->
                Flatten([i \in DOMAIN content.payloads |->
                            IF content.payloads[i].enc = "blank" THEN <<>>
                            ELSE decompress_diagram_data(content.payloads[i])])
          [] OTHER -> <<>>

\* parse_diagram_xml: <<cells of the root>>, or <<>> for None
parse_diagram_xml(page) ==
    IF page.xml = "wellformed" THEN <<page.cells>>
    ELSE IF page.model_tag /\ page.xml = "recoverable" THEN <<page.cells>>
    ELSE <<>>

Returned(ast, warnings) == [outcome |-> "returned", ast |-> ast, warnings |-> warnings]
Raised(exc) == [outcome |-> "raised", exc |-> exc]
InputPath == "in.drawio"

\* pages[page_index] of a Python list
ListIndex(pages, page_index) ==
    IF page_index >= 0 THEN page_index + 1 ELSE Len(pages) + page_index + 1

convert_drawio_to_ast_unchecked(content, page_index) ==
    LET pages == extract_diagram_pages(content)
        index == IF page_index >= Len(pages) THEN 0 ELSE page_index
        range == IF page_index >= Len(pages) THEN <<"page_index_out_of_range">> ELSE <<>>
    IN  IF pages = <<>>
        THEN Returned(DiagramAST([metadata |-> [source_format |-> "drawio",
                                                error |-> "no_pages"]]),
                      <<"no_pages">>)
        ELSE IF ListIndex(pages, index) \notin DOMAIN pages THEN Raised("IndexError")
        ELSE LET root == parse_diagram_xml(pages[ListIndex(pages, index)])
                 ast == extract_graph_elements(IF root = <<>> THEN <<>> ELSE root[1])
             IN  Returned(enrich_ast([ast EXCEPT !.metadata =
                                [source_file |-> InputPath, page_index |-> index,
                                 total_pages |-> Len(pages)] @@ @]),
                          range)

convert_drawio_to_ast(content, page_index) ==
    LET pages == extract_diagram_pages(content)
        index == IF page_index >= Len(pages) THEN 0 ELSE page_index
        range == IF page_index >= Len(pages) THEN <<"page_index_out_of_range">> ELSE <<>>
    IN  IF pages = <<>>
        THEN Returned(DiagramAST([metadata |-> [source_format |-> "drawio",
                                                error |-> "no_pages"]]),
                      <<"no_pages">>)
        ELSE IF ListIndex(pages, index) \notin DOMAIN pages THEN Raised("IndexError")
        ELSE LET root == parse_diagram_xml(pages[ListIndex(pages, index)])
             IN  IF root = <<>>
                 THEN Returned(DiagramAST([metadata |-> [source_format |-> "drawio",
                                                         error |-> "xml_parse_failed"]]),
                               range \o <<"xml_parse_failed">>)
                 ELSE Returned(enrich_ast([extract_graph_elements(root[1]) EXCEPT !.metadata =
                                    [source_file |-> InputPath, page_index |-> index,
                                     total_pages |-> Len(pages)] @@ @]),
                               range)

(***************************************************************************)
(* The Draw.io entry point as a state machine: a file and a page index are *)
(* handed to convert_drawio_to_ast, which returns or raises.               *)
(***************************************************************************)
Cell(id, parent, value, style) ==
    [id |-> id, parent |-> parent, value |-> value, style |-> style, vertex |-> "1",
     edge |-> "", source |-> None, target |-> None, geometry |-> <<>>]

LayerCells == <<[Cell("0", "", "", <<>>) EXCEPT !.vertex = ""],
                [Cell("1", "0", "", <<>>) EXCEPT !.vertex = ""]>>

CellsZoned ==
    LayerCells \o
    <<[Cell("g1", "1", "<b>DMZ</b>", << <<"swimlane">>, <<"fillColor", "#FF0000">> >>)
            EXCEPT !.geometry = <<[vals |-> <<0, 0, 200, 100>>, bad |-> 0]>>],
      [Cell("a", "g1", "API Gateway", << <<"rounded", "1">>, <<"fillColor", "#FF0000">> >>)
            EXCEPT !.geometry = <<[vals |-> <<10, 20, 80, 40>>, bad |-> 0]>>],
      [Cell("b", "1", "Orders", << <<"shape", "cylinder3">>, <<"fillColor", "#FFFFFF">> >>)
            EXCEPT !.geometry = <<[vals |-> <<200, 20, 60, 60>>, bad |-> 3]>>],
      [Cell("e", "1", "HTTPS<br>query",
            << <<"dashed", "1">>, <<"startArrow", "classic">>, <<"endArrow", "none">> >>)
            EXCEPT !.vertex = "", !.edge = "1", !.source = "a", !.target = "b"]>>

CellsLoose ==
    LayerCells \o
    <<Cell("cell-12345", "1", "", <<>>),
      [Cell("x", "", "User", << <<"ellipse">> >>) EXCEPT !.vertex = ""],
      [Cell("f", "1", "", << <<"strokeWidth", "3">>, <<"endArrow", "NONE">> >>)
            EXCEPT !.vertex = "", !.source = "x", !.target = "gone"]>>

CellsBare == <<Cell("u", "", "User", << <<"shape", "doubleEllipse">> >>)>>

PageText(model_tag, cell_tag, xml, cells) ==
    [model_tag |-> model_tag, cell_tag |-> cell_tag, xml |-> xml, cells |-> cells]

ModelPages == {PageText(TRUE, TRUE, "wellformed", CellsZoned),
               PageText(TRUE, TRUE, "recoverable", CellsLoose),
               PageText(TRUE, FALSE, "broken", <<>>)}
OtherPages == {PageText(FALSE, TRUE, "wellformed", CellsBare),
               PageText(FALSE, FALSE, "wellformed", <<>>),
               PageText(FALSE, FALSE, "broken", <<>>)}

\* what the text of a <diagram> element can be
DiagramPayloads ==
    {[enc |-> "blank", text |-> PageText(FALSE, FALSE, "broken", <<>>)],
     [enc |-> "garbage", text |-> PageText(FALSE, FALSE, "broken", <<>>)],
     [enc |-> "deflate_uri", text |-> PageText(TRUE, TRUE, "wellformed", CellsZoned)]}
    \cup {[enc |-> "inline", text |-> t] : t \in OtherPages}
    \cup {[enc |-> "deflate", text |-> t] : t \in ModelPages \cup OtherPages}

PageIndexes == (0 - MaxDiagrams - 1)..(MaxDiagrams + 1)

DrawioInit ==
    /\ dw_pc = "called"
    /\ \E kind \in {"model", "diagrams", "elements", "other"} :
          \/ /\ kind = "model"
             /\ \E whole \in ModelPages : dw_content = [kind |-> kind, whole |-> whole]
          \/ /\ kind = "diagrams"
             /\ \E ps \in SeqsUpTo(DiagramPayloads, MaxDiagrams) \ {<<>>} :
                    dw_content = [kind |-> kind, payloads |-> ps]
          \/ /\ kind = "elements"
             /\ \E ps \in SeqsUpTo(DiagramPayloads, MaxDiagrams) :
                    dw_content = [kind |-> kind, payloads |-> ps]
          \/ /\ kind = "other"
             /\ dw_content = [kind |-> kind]
    /\ dw_page_index \in PageIndexes
    /\ dw_ret = Idle
    /\ IdleBut("drawio")

ConvertDrawio ==
    /\ dw_pc = "called"
    /\ dw_ret' = convert_drawio_to_ast(dw_content, dw_page_index)
    /\ dw_pc' = "done"
    /\ UNCHANGED <<dw_content, dw_page_index, notDrawio>>

SpecDrawio == DrawioInit /\ [][ConvertDrawio]_vars

(***************************************************************************)
(* Claims about convert_drawio_to_ast.                                     *)
(***************************************************************************)
DrawioPages == extract_diagram_pages(dw_content)
HasSelection == DrawioPages # <<>> /\ dw_page_index >= 0 - Len(DrawioPages)
SelectedPage ==
    DrawioPages[IF dw_page_index >= Len(DrawioPages) THEN 1
                ELSE IF dw_page_index >= 0 THEN dw_page_index + 1
                ELSE Len(DrawioPages) + dw_page_index + 1]
Parsable(page) == page.xml = "wellformed" \/ (page.model_tag /\ page.xml = "recoverable")
ErrorAst(ret) ==
    /\ ret.outcome = "returned"
    /\ "error" \in DOMAIN ret.ast.metadata
    /\ ret.ast.nodes = <<>> /\ ret.ast.edges = <<>> /\ ret.ast.groups = <<>>

\* C8: convert_drawio_to_ast reports failure as a value: when no page can be
\* extracted or decompressed, or the selected page's XML cannot be parsed, it
\* returns an AST with metadata.error and empty nodes, edges and groups; an
\* AST returned without metadata.error comes from a page whose XML was parsed.
C8_FailureAsValue ==
    dw_pc = "done" =>
        /\ DrawioPages = <<>> => ErrorAst(dw_ret) /\ dw_ret.ast.metadata.error = "no_pages"
        /\ (HasSelection /\ ~Parsable(SelectedPage)) =>
              ErrorAst(dw_ret) /\ dw_ret.ast.metadata.error = "xml_parse_failed"
        /\ (dw_ret.outcome = "returned" /\ "error" \notin DOMAIN dw_ret.ast.metadata) =>
              HasSelection /\ Parsable(SelectedPage)
        /\ (dw_ret.outcome = "returned" /\ "error" \in DOMAIN dw_ret.ast.metadata) =>
              ErrorAst(dw_ret)
        /\ dw_ret.outcome = "raised" => DrawioPages # <<>> /\ ~HasSelection

\* a file whose second <diagram> inflates to text the XML parser rejects,
\* converted with page_index 1
C8_Witness ==
    /\ dw_pc = "done"
    /\ dw_content.kind = "diagrams"
    /\ dw_page_index = 1
    /\ Len(DrawioPages) = 2
    /\ ~Parsable(DrawioPages[2])
    /\ ErrorAst(dw_ret)
    /\ dw_ret.ast.metadata.error = "xml_parse_failed"

\* the cells of the selected page that the edge branch takes, in document order
EdgeCells ==
    SelectSeq(SelectedPage.cells,
              LAMBDA c : c.id \notin {"0", "1", ""}
                         /\ (c.edge = "1" \/ (Truthy(c.source) /\ Truthy(c.target))))

Extracted == dw_pc = "done" /\ dw_ret.outcome = "returned"
             /\ "error" \notin DOMAIN dw_ret.ast.metadata

\* C17: Draw.io arrowheads are decided per end from the style keys: an edge
\* has arrow_start exactly when startArrow is present with a value other than
\* none/open, and lacks arrow_end exactly when endArrow is none or open (an
\* absent endArrow means an arrowhead at the end, an absent startArrow none at
\* the start); "dashed=1;startArrow=classic;endArrow=none" gives a dashed edge
\* with arrow_start and without arrow_end.
C17_ArrowheadsPerEnd ==
    Extracted =>
        /\ Len(dw_ret.ast.edges) = Len(EdgeCells)
        /\ \A k \in DOMAIN EdgeCells :
              LET style == parse_style_string(EdgeCells[k].style)
                  e == dw_ret.ast.edges[k]
              IN  /\ e.arrow_start = ("startArrow" \in DOMAIN style
                                        /\ Lower(style["startArrow"]) \notin {"none", "open"})
                  /\ e.arrow_end = ~("endArrow" \in DOMAIN style
                                       /\ Lower(style["endArrow"]) \in {"none", "open"})
                  /\ EdgeCells[k].style = << <<"dashed", "1">>, <<"startArrow", "classic">>,
                                              <<"endArrow", "none">> >> =>
                        e.style = "dashed" /\ e.arrow_start /\ ~e.arrow_end

\* an edge cell whose style has no startArrow key comes out with arrow_start
C17_AbsentStartArrow ==
    /\ Extracted
    /\ \E k \in DOMAIN EdgeCells :
          /\ "startArrow" \notin DOMAIN parse_style_string(EdgeCells[k].style)
          /\ dw_ret.ast.edges[k].arrow_start

(***************************************************************************)
(* extract_graph_elements on its own: the mxCell elements of a parsed page *)
(* are handed in, in document order, and the AST comes back.               *)
(***************************************************************************)
MaxCells == 3

CellSamples ==
    {[Cell("0", "", "", <<>>) EXCEPT !.vertex = ""],
     [Cell("1", "0", "", <<>>) EXCEPT !.vertex = ""],
     [Cell("", "1", "Stray", <<>>) EXCEPT !.vertex = "1"],
     Cell("g", "1", "<b>DMZ</b>", << <<"swimlane">> >>),
     Cell("h", "1", "", << <<"group">> >>),
     Cell("r", "1", "Internal AWS", << <<"swimlane">>, <<"rounded", "1">> >>),
     Cell("a", "g", "API Gateway", << <<"rounded", "1">> >>),
     Cell("b", "1", "", <<>>),
     Cell("c", "a", "Orders", << <<"shape", "cylinder3">> >>),
     [Cell("x", "0", "User", << <<"ellipse">> >>) EXCEPT !.vertex = ""],
     [Cell("e", "1", "HTTPS<br>query", << <<"dashed", "1">> >>)
        EXCEPT !.vertex = "", !.edge = "1", !.source = "a", !.target = "b"],
     [Cell("f", "g", "", <<>>) EXCEPT !.source = "a", !.target = "c"],
     [Cell("k", "e", "<br/>", <<>>) EXCEPT !.vertex = ""]}

CellsInit ==
    /\ IdleBut("drawio")
    /\ dw_pc = "parsed"
    /\ dw_content \in SeqsUpTo(CellSamples, MaxCells)
    /\ dw_page_index = 0
    /\ dw_ret = Idle

ExtractGraphElements ==
    /\ dw_pc = "parsed"
    /\ dw_ret' = extract_graph_elements(dw_content)
    /\ dw_pc' = "extracted"
    /\ UNCHANGED <<dw_content, dw_page_index, notDrawio>>

SpecCells == CellsInit /\ [][ExtractGraphElements]_vars

ExtractedCells == dw_pc = "extracted"

\* the cells that are not skipped, and the ids that some cell names as parent
TakenCells == SelectSeq(dw_content, LAMBDA c : c.id \notin {"0", "1", ""})
ParentIds == {c.parent : c \in {d \in Range(dw_content) : d.id # "" /\ d.parent # ""}}

\* the element a cell stands for, in the order edge, group, node
Classified(c) ==
    LET style == parse_style_string(c.style)
    IN  IF c.edge = "1" \/ (c.source \notin {None, ""} /\ c.target \notin {None, ""})
        THEN "edge"
        ELSE IF {"swimlane", "group"} \cap DOMAIN style # {} \/ c.id \in ParentIds
        THEN "group"
        ELSE IF c.vertex = "1" \/ clean_label(c.value) # "" THEN "node"
        ELSE "none"

CellsOfClass(class) == SelectSeq(TakenCells, LAMBDA c : Classified(c) = class)

\* C24: Draw.io cell classification is a partition: every mxCell whose id is
\* not 0, 1 or empty yields at most one AST element, chosen in the order edge
\* (edge="1" or both source and target present), then group (container style,
\* or parent of some other cell), then node (vertex="1" or non-empty label);
\* the cells with ids 0 and 1 yield no element and never occur as a node id,
\* a group id or a node's parent_group.
C24_Partition ==
    ExtractedCells =>
        /\ Len(dw_ret.edges) = Len(CellsOfClass("edge"))
        /\ [k \in DOMAIN dw_ret.nodes |-> dw_ret.nodes[k].id]
              = [k \in DOMAIN CellsOfClass("node") |-> CellsOfClass("node")[k].id]
        /\ {dw_ret.groups[k].id : k \in DOMAIN dw_ret.groups}
              \subseteq {c.id : c \in Range(CellsOfClass("group"))}
        /\ \A c \in Range(CellsOfClass("group")) :
              (clean_label(c.value) # "" \/ c.id \in ParentIds) =>
                  \E k \in DOMAIN dw_ret.groups : dw_ret.groups[k].id = c.id
        /\ \A k \in DOMAIN dw_ret.nodes :
              /\ dw_ret.nodes[k].id \notin {"0", "1"}
              /\ dw_ret.nodes[k].parent_group \notin {"0", "1"}
        /\ \A k \in DOMAIN dw_ret.groups : dw_ret.groups[k].id \notin {"0", "1"}

\* a swimlane with rounded corners and no cell inside it comes out as a node
C24_RoundedSwimlaneIsNode ==
    /\ ExtractedCells
    /\ \E n \in DOMAIN dw_ret.nodes :
          dw_ret.nodes[n].id = "r" /\ dw_ret.nodes[n].shape = "stadium"
    /\ \A g \in DOMAIN dw_ret.groups : dw_ret.groups[g].id # "r"

\* C22: for every integer page_index and every file with at least one
\* extractable page, convert_drawio_to_ast converts page page_index when it
\* is a valid index and falls back to page 0, with a warning and without
\* raising, for every index outside the range of pages; metadata.page_index
\* records the page actually converted.
C22_PageSelection ==
    (dw_pc = "done" /\ DrawioPages # <<>>) =>
        LET valid == dw_page_index \in 0..(Len(DrawioPages) - 1)
            page == IF valid THEN dw_page_index ELSE 0
        IN  /\ dw_ret.outcome = "returned"
            /\ ~valid => "page_index_out_of_range" \in Range(dw_ret.warnings)
            /\ Parsable(DrawioPages[page + 1]) =>
                  /\ "error" \notin DOMAIN dw_ret.ast.metadata
                  /\ dw_ret.ast.metadata.page_index = page
                  /\ Len(dw_ret.ast.nodes)
                        = Len(extract_graph_elements(DrawioPages[page + 1].cells).nodes)

\* a file with pages and an index below -len(pages): IndexError
C22_NegativeIndexRaises ==
    /\ dw_pc = "done" /\ DrawioPages # <<>>
    /\ dw_page_index < 0 - Len(DrawioPages)
    /\ dw_ret = Raised("IndexError")

Occurrences(seq, x) == Cardinality({i \in DOMAIN seq : seq[i] = x})

\* C30: in every AST returned by the Draw.io extractor each group's children
\* list holds no id more than once, and a node whose parent cell became a
\* group appears exactly once in that group's children.
C30_ChildrenOnce ==
    Extracted =>
        \A g \in DOMAIN dw_ret.ast.groups :
            /\ \A i \in DOMAIN dw_ret.ast.groups[g].children :
                  Occurrences(dw_ret.ast.groups[g].children,
                        dw_ret.ast.groups[g].children[i]) = 1
            /\ \A n \in DOMAIN dw_ret.ast.nodes :
                  dw_ret.ast.nodes[n].parent_group = dw_ret.ast.groups[g].id =>
                      Occurrences(dw_ret.ast.groups[g].children, dw_ret.ast.nodes[n].id) = 1

\* node a of group g1 is listed twice among the children of g1
C30_ChildListedTwice ==
    /\ Extracted
    /\ \E g \in DOMAIN dw_ret.ast.groups, n \in DOMAIN dw_ret.ast.nodes :
          /\ dw_ret.ast.nodes[n].parent_group = dw_ret.ast.groups[g].id
          /\ Occurrences(dw_ret.ast.groups[g].children, dw_ret.ast.nodes[n].id) = 2

(***************************************************************************)
(* The SVG extractor (svg_to_ast.py).  An element is a function from       *)
(* attribute names to values, with its local tag name under "tag", its     *)
(* text under "text" and, under "foreign", whether its namespace differs   *)
(* from the root's.  A numeric attribute is [ok, val]: whether float()     *)
(* accepts the string, and the number.  The dimensions of the model are    *)
(* even, so the halves the code takes are whole numbers.                   *)
(***************************************************************************)
Num(n) == [ok |-> TRUE, val |-> n]
NotANumber == [ok |-> FALSE, val |-> 0]    \* '50%', '1em', '10 20 30'

\* _find_all_text: the stripped, non-empty texts of text and tspan elements
_find_all_text(elems) ==
    LET hits == SelectSeq(elems, LAMBDA e : e.tag \in {"text", "tspan"} /\ Get(e, "text", "") # "")
    IN  [k \in DOMAIN hits |-> hits[k].text]

\* root.iter('{ns}tag'), or root.iter('tag') when the root has no namespace
IterTag(elems, tag) == SelectSeq(elems, LAMBDA e : e.tag = tag /\ ~e.foreign)

IsDataImage(href) == href \in {"data:image/png;base64,AAAA", "data:image/jpeg;base64,AAAA"}

is_embedded_raster(svg) ==
    IF ~svg.parses THEN TRUE
    ELSE LET image_list == IterTag(svg.elems, "image")
             texts == _find_all_text(svg.elems)
             rects == IterTag(svg.elems, "rect")
         IN  \/ image_list # <<>> /\ texts = <<>> /\ Len(rects) <= 1
             \/ \E i \in DOMAIN image_list :
                    IsDataImage(Get(image_list[i], "href", "")) /\ texts = <<>>

\* _parse_style on a style attribute given as its 'key:value' parts
_parse_style(style) ==
    [key \in {style[i][1] : i \in DOMAIN style} |->
        style[Max({i \in DOMAIN style : style[i][1] = key})][2]]

\* _get_fill and _get_stroke
PaintOf(elem, key) ==
    LET attr == Get(elem, key, None)
        styled == Get(_parse_style(Get(elem, "style", <<>>)), key, None)
    IN  IF Truthy(attr) /\ attr # "none" THEN attr
        ELSE IF Truthy(styled) /\ styled # "none" THEN styled
        ELSE None

_get_stroke_dash(elem) ==
    LET attr == Get(elem, "stroke-dasharray", "")
        styled == Get(_parse_style(Get(elem, "style", <<>>)), "stroke-dasharray", "")
    IN  (attr # "" /\ attr # "none") \/ (styled # "" /\ styled # "none")

\* float(re.sub(r'[^\d.]', '', w)), 1.0 on ValueError, for the widths of the model
_get_stroke_width(elem) ==
    LET attr == Get(elem, "stroke-width", "")
        w == IF attr = "" THEN Get(_parse_style(Get(elem, "style", <<>>)), "stroke-width", "")
             ELSE attr
    IN  CASE w = "3px" -> 3 [] w = "4" -> 4 [] OTHER -> 1

_has_marker_start(elem) ==
    \/ Get(elem, "marker-start", "") # ""
    \/ Get(_parse_style(Get(elem, "style", <<>>)), "marker-start", "") # ""

_has_arrowhead(elem) ==
    \/ Get(elem, "marker-end", "") # "" \/ Get(elem, "marker-start", "") # ""
    \/ Get(_parse_style(Get(elem, "style", <<>>)), "marker-end", "") # ""
    \/ Get(_parse_style(Get(elem, "style", <<>>)), "marker-start", "") # ""

\* _bbox: <<(x, y, w, h)>>, or <<>> for None
_bbox(elem) ==
    LET a(name) == Get(elem, name, Num(0))
        all(names) == \A n \in names : a(n).ok
    IN  CASE elem.tag = "rect" /\ all({"x", "y", "width", "height"}) ->
                << <<a("x").val, a("y").val, a("width").val, a("height").val>> >>
          [] elem.tag = "circle" /\ all({"cx", "cy", "r"}) ->
                << <<a("cx").val - a("r").val, a("cy").val - a("r").val,
                     2 * a("r").val, 2 * a("r").val>> >>
          [] elem.tag = "ellipse" /\ all({"cx", "cy", "rx", "ry"}) ->
                << <<a("cx").val - a("rx").val, a("cy").val - a("ry").val,
                     2 * a("rx").val, 2 * a("ry").val>> >>
          [] OTHER -> <<>>

_center(bbox) == <<bbox[1] + bbox[3] \div 2, bbox[2] + bbox[4] \div 2>>

Dist2(p, q) == (p[1] - q[1]) * (p[1] - q[1]) + (p[2] - q[2]) * (p[2] - q[2])

\* sqrt(dx*dx + dy*dy) <= 30.0
_point_near_shape(p, bbox) ==
    LET c == _center(bbox)
        dx == Max({Abs(p[1] - c[1]) - bbox[3] \div 2, 0})
        dy == Max({Abs(p[2] - c[2]) - bbox[4] \div 2, 0})
    IN  dx * dx + dy * dy <= 30 * 30

\* _sanitize_id for the labels of the model: a label is the sequence of the
\* texts joined by ' ', none of them longer than 30 or starting with a digit
RECURSIVE Join(_, _)
Join(words, sep) ==
    IF words = <<>> THEN ""
    ELSE IF Len(words) = 1 THEN words[1]
    ELSE words[1] \o sep \o Join(Tail(words), sep)

_detect_shape_type_raises(elem) ==
    elem.tag = "rect" /\ (~Get(elem, "rx", Num(0)).ok \/ ~Get(elem, "ry", Num(0)).ok)

_detect_shape_type(elem) ==
    CASE elem.tag = "circle" -> "circle"
      [] elem.tag = "ellipse" -> "stadium"
      [] elem.tag \in {"polygon", "path"} -> "diamond"
      [] elem.tag = "rect" ->
            IF Get(elem, "rx", Num(0)).val > 10 \/ Get(elem, "ry", Num(0)).val > 10
            THEN "stadium" ELSE "rectangle"
      [] OTHER -> "rectangle"

\* re.sub over a label made of plain words: the blanks become '_'; no label
\* of the model reaches 30 characters or starts with a digit
_sanitize_id(words) == Join(words, "_")

\* the start and end points of a line, path or polyline element:
\* <<start, end>>, or <<>> when the code skips the element
LineEnds(elem) ==
    LET a(name) == Get(elem, name, Num(0))
        numbers == Get(elem, IF elem.tag = "path" THEN "d" ELSE "points", <<>>)
    IN  IF elem.tag = "line"
        THEN IF \A n \in {"x1", "y1", "x2", "y2"} : a(n).ok
             THEN << <<a("x1").val, a("y1").val>>, <<a("x2").val, a("y2").val>> >>
             ELSE <<>>
        ELSE IF Len(numbers) < 4 THEN <<>>
        ELSE << <<numbers[1], numbers[2]>>,
                <<numbers[Len(numbers) - 1], numbers[Len(numbers)]>> >>

IsShape(e) ==
    /\ e.tag \in {"rect", "circle", "ellipse"}
    /\ _bbox(e) # <<>> /\ _bbox(e)[1][3] > 5 /\ _bbox(e)[1][4] > 5
    /\ ~(PaintOf(e, "fill") \in {"#ffffff", "#FFFFFF", "white", None}
         /\ PaintOf(e, "stroke") = None)

IsText(e) == e.tag \in {"text", "tspan"} /\ Get(e, "text", "") # ""

IsLine(e) ==
    /\ e.tag \in {"line", "path", "polyline"}
    /\ LineEnds(e) # <<>>
    /\ Dist2(LineEnds(e)[1], LineEnds(e)[2]) >= 10 * 10

\* float() outside any try: the shape type of a rect, the position of a text
Raises(e) ==
    \/ IsShape(e) /\ _detect_shape_type_raises(e)
    \/ IsText(e) /\ (~Get(e, "x", Num(0)).ok \/ ~Get(e, "y", Num(0)).ok)

\* the loop over root.iter(), for elements none of which raises
ScanElements(elems) ==
    LET shapeElems == SelectSeq(elems, IsShape)
        textElems == SelectSeq(elems, IsText)
        lineElems == SelectSeq(elems, IsLine)
    IN  [raw_shapes |->
            [k \in DOMAIN shapeElems |->
                [bbox |-> _bbox(shapeElems[k])[1],
                 center |-> _center(_bbox(shapeElems[k])[1]),
                 fill |-> PaintOf(shapeElems[k], "fill"),
                 stroke |-> PaintOf(shapeElems[k], "stroke"),
                 type |-> _detect_shape_type(shapeElems[k])]],
         texts_with_pos |->
            [k \in DOMAIN textElems |->
                [text |-> textElems[k].text,
                 x |-> Get(textElems[k], "x", Num(0)).val,
                 y |-> Get(textElems[k], "y", Num(0)).val]],
         raw_lines |->
            [k \in DOMAIN lineElems |->
                [start |-> LineEnds(lineElems[k])[1],
                 end |-> LineEnds(lineElems[k])[2],
                 dashed |-> _get_stroke_dash(lineElems[k]),
                 thick |-> _get_stroke_width(lineElems[k]) >= 3,
                 has_arrow |-> _has_arrowhead(lineElems[k]),
                 has_start_arrow |-> _has_marker_start(lineElems[k])]]]

\* the first index of candidates at which key is least, 0 when there is none
\* (the 'if d < best' loops keep the first of equally near shapes)
FirstNearest(candidates, key(_)) ==
    IF candidates = {} THEN 0
    ELSE Min({i \in candidates :
                \A k \in candidates : key(i) < key(k) \/ (key(i) = key(k) /\ i <= k)})

\* the shape a text is attached to
best_shape(raw_shapes, txt) ==
    LET Holds(s) ==
            /\ s.bbox[1] <= txt.x /\ txt.x <= s.bbox[1] + s.bbox[3]
            /\ s.bbox[2] - 10 <= txt.y /\ txt.y <= s.bbox[2] + s.bbox[4] + 10
        d(i) == Dist2(<<txt.x, txt.y>>, raw_shapes[i].center)
    IN  FirstNearest({i \in DOMAIN raw_shapes : Holds(raw_shapes[i])}, d)

\* the while loop over used_ids: the first of base, base_1, base_2, ... not in used
FreshId(base, used) ==
    LET Candidate(c) == IF c = 0 THEN base ELSE base \o "_" \o ToString(c)
    IN  Candidate(Min({c \in 0..Cardinality(used) : Candidate(c) \notin used}))

RECURSIVE AssignIds(_, _)
AssignIds(shapes, done) ==
    IF Len(done) = Len(shapes) THEN done
    ELSE LET s == shapes[Len(done) + 1]
             uid == FreshId(_sanitize_id(s.words), {done[k].id : k \in DOMAIN done})
         IN  AssignIds(shapes, Append(done, [s EXCEPT !.id = uid]))

\* label association, the fallback labels and the ids: labeled_shapes
LabelShapes(raw_shapes, texts_with_pos) ==
    LET words(i) ==
            LET mine == SelectSeq(texts_with_pos, LAMBDA t : best_shape(raw_shapes, t) = i)
            IN  [k \in DOMAIN mine |-> mine[k].text]
        worded == [i \in DOMAIN raw_shapes |->
                        raw_shapes[i] @@ [words |-> words(i), id |-> None]]
        some == SelectSeq(worded, LAMBDA s : s.words # <<>>)
        numbered == [i \in DOMAIN worded |->
                        [worded[i] EXCEPT !.words = <<"Node", ToString(i)>>]]
    IN  AssignIds(IF some = <<>> THEN numbered ELSE some, <<>>)

NearestShape_beyond_tolerance(labeled, p) ==
    LET d(i) == Dist2(p, labeled[i].center)
    IN  FirstNearest(DOMAIN labeled, d)

\* the shape of labeled_shapes a line end is attached to
NearestShape(labeled, p) ==
    LET d(i) == Dist2(p, labeled[i].center)
    IN  FirstNearest({i \in DOMAIN labeled : _point_near_shape(p, labeled[i].bbox)}, d)

\* the node list, the edge list, the direction and the enrichment
BuildSvgAst(labeled, raw_lines) ==
    LET ast_nodes == [k \in DOMAIN labeled |->
                        DiagramNode([id |-> labeled[k].id,
                                     label |-> Join(labeled[k].words, " "),
                                     shape |-> labeled[k].type,
                                     x |-> labeled[k].bbox[1], y |-> labeled[k].bbox[2],
                                     width |-> labeled[k].bbox[3], height |-> labeled[k].bbox[4],
                                     fill_color |-> labeled[k].fill,
                                     stroke_color |-> labeled[k].stroke])]
        ends == [i \in DOMAIN raw_lines |->
                    [src |-> NearestShape(labeled, raw_lines[i].start),
                     dst |-> NearestShape(labeled, raw_lines[i].end)]]
        Joins(i) == /\ ends[i].src # 0 /\ ends[i].dst # 0
                    /\ labeled[ends[i].src].id # labeled[ends[i].dst].id
        \* seen_edges: a line counts when no earlier line joins the same pair
        edgeLines == SelectSeq([i \in DOMAIN raw_lines |-> i],
                        LAMBDA i : Joins(i) /\ \A k \in 1..(i - 1) : ends[k] # ends[i])
        ast_edges == [k \in DOMAIN edgeLines |->
                        LET l == raw_lines[edgeLines[k]]
                        IN  DiagramEdge([id |-> "edge_" \o ToString(k),
                                         source |-> labeled[ends[edgeLines[k]].src].id,
                                         target |-> labeled[ends[edgeLines[k]].dst].id,
                                         style |-> IF l.thick THEN "thick"
                                                   ELSE IF l.dashed THEN "dashed"
                                                   ELSE "solid",
                                         arrow_end |-> l.has_arrow,
                                         arrow_start |-> l.has_start_arrow,
                                         label |-> ""])]
        all_x == {labeled[k].center[1] : k \in DOMAIN labeled}
        all_y == {labeled[k].center[2] : k \in DOMAIN labeled}
        y_spread == IF Len(labeled) > 1 THEN Max(all_y) - Min(all_y) ELSE 0
        x_spread == IF Len(labeled) > 1 THEN Max(all_x) - Min(all_x) ELSE 0
    IN  enrich_ast(DiagramAST(
            [nodes |-> ast_nodes, edges |-> ast_edges, groups |-> <<>>,
             diagram_type |-> "flowchart",
             direction |-> IF y_spread >= x_spread THEN "TB" ELSE "LR",
             metadata |-> [source_format |-> "svg", extraction_method |-> "xml_parse"]]))

SvgNone == [outcome |-> "none"]
SvgAst(ast) == [outcome |-> "ast", ast |-> ast]

(***************************************************************************)
(* The SVG entry point as a state machine: the content of an SVG file is   *)
(* handed to convert_svg_to_ast, which scans the elements, labels the      *)
(* shapes and builds the AST; it returns None or an AST, or raises.        *)
(***************************************************************************)
Box(x, y, w, h) == [tag |-> "rect", foreign |-> FALSE, x |-> Num(x), y |-> Num(y),
                    width |-> Num(w), height |-> Num(h)]

SvgElemSamples ==
    {[tag |-> "image", foreign |-> FALSE, href |-> "data:image/png;base64,AAAA"],
     [tag |-> "image", foreign |-> FALSE, href |-> "logo.png"],
     [tag |-> "image", foreign |-> TRUE, href |-> "data:image/png;base64,AAAA"],
     [tag |-> "text", foreign |-> FALSE, text |-> "Orders", x |-> Num(20), y |-> Num(20)],
     [tag |-> "text", foreign |-> FALSE, text |-> "Billing", x |-> NotANumber, y |-> Num(20)],
     [tag |-> "tspan", foreign |-> FALSE, text |-> "", x |-> NotANumber],
     Box(0, 0, 100, 40) @@ [stroke |-> "#000000"],
     Box(200, 0, 100, 40) @@ [fill |-> "#ff0000", style |-> << <<"stroke", "none">> >>],
     Box(0, 100, 100, 40) @@ [stroke |-> "#000000", rx |-> NotANumber],
     Box(0, 200, 100, 40) @@ [fill |-> "#ffffff"],
     [tag |-> "circle", foreign |-> FALSE, cx |-> Num(50), cy |-> Num(200), r |-> Num(20),
      style |-> << <<"fill", "#00ff00">> >>],
     [tag |-> "line", foreign |-> FALSE, x1 |-> Num(100), y1 |-> Num(20), x2 |-> Num(200),
      y2 |-> Num(20)] @@ ("stroke-width" :> "3px") @@ ("marker-start" :> "url(#a)"),
     [tag |-> "path", foreign |-> FALSE, d |-> <<0, 0, 5, 5>>]}

SvgInit ==
    /\ s_pc = "called"
    /\ \/ s_svg = [parses |-> FALSE, elems |-> <<>>]
       \/ \E elems \in SeqsUpTo(SvgElemSamples, MaxSvgElems) :
              s_svg = [parses |-> TRUE, elems |-> elems]
    /\ s_scan = Idle
    /\ s_labeled = Idle
    /\ s_ret = Idle
    /\ IdleBut("svg")

SvgReturn(value) ==
    /\ s_ret' = value
    /\ s_pc' = "done"
    /\ UNCHANGED <<s_svg, s_scan, s_labeled, notSvg>>

\* the raster check, the XML parse and the loop over root.iter()
convert_svg_to_ast ==
    /\ s_pc = "called"
    /\ IF is_embedded_raster(s_svg) THEN SvgReturn(SvgNone)
       ELSE IF \E i \in DOMAIN s_svg.elems : Raises(s_svg.elems[i])
       THEN SvgReturn(Raised("ValueError"))
       ELSE IF ScanElements(s_svg.elems).raw_shapes = <<>> THEN SvgReturn(SvgNone)
       ELSE /\ s_scan' = ScanElements(s_svg.elems)
            /\ s_pc' = "scanned"
            /\ UNCHANGED <<s_svg, s_labeled, s_ret, notSvg>>

\* the label association and the id assignment
convert_svg_to_ast_labels ==
    /\ s_pc = "scanned"
    /\ s_labeled' = LabelShapes(s_scan.raw_shapes, s_scan.texts_with_pos)
    /\ s_pc' = "labeled"
    /\ UNCHANGED <<s_svg, s_scan, s_ret, notSvg>>

\* the node and edge lists, the direction, the enrichment and the return
convert_svg_to_ast_build ==
    /\ s_pc = "labeled"
    /\ SvgReturn(SvgAst(BuildSvgAst(s_labeled, s_scan.raw_lines)))

SvgNext == convert_svg_to_ast \/ convert_svg_to_ast_labels \/ convert_svg_to_ast_build

SpecSvg == SvgInit /\ [][SvgNext]_vars

(***************************************************************************)
(* Claims about convert_svg_to_ast.                                        *)
(***************************************************************************)
TagCount(tags) == Cardinality({i \in DOMAIN s_svg.elems : s_svg.elems[i].tag \in tags})
NonEmptyTexts ==
    {i \in DOMAIN s_svg.elems :
        s_svg.elems[i].tag \in {"text", "tspan"} /\ s_svg.elems[i].text # ""}
RasterWrapper ==
    s_svg.parses /\ TagCount({"image"}) >= 1 /\ NonEmptyTexts = {} /\ TagCount({"rect"}) <= 1
CandidateShapes ==
    {i \in DOMAIN s_svg.elems :
        LET e == s_svg.elems[i]
        IN  /\ e.tag \in {"rect", "circle", "ellipse"}
            /\ _bbox(e) # <<>> /\ _bbox(e)[1][3] > 5 /\ _bbox(e)[1][4] > 5
            /\ (PaintOf(e, "stroke") # None
                \/ PaintOf(e, "fill") \notin {"#ffffff", "#FFFFFF", "white", None})}

\* C9: convert_svg_to_ast returns None, never an AST and never an exception,
\* for every raster wrapper (at least one image element, no non-empty
\* text/tspan, at most one rect), for every unparseable SVG and for every
\* SVG that yields no candidate shape.
C9_DeclinesWithNone ==
    s_pc = "done" =>
        ((RasterWrapper \/ ~s_svg.parses \/ CandidateShapes = {}) => s_ret = SvgNone)

\* the failing input: a text whose x is not a number, and no shape at all
C9_TextPositionRaises ==
    /\ s_pc = "done"
    /\ s_svg.parses
    /\ Len(s_svg.elems) = 1
    /\ s_svg.elems[1].tag = "text" /\ ~s_svg.elems[1].x.ok
    /\ CandidateShapes = {}
    /\ s_ret = Raised("ValueError")

(***************************************************************************)
(* The connectors of an SVG: files with two shapes and some lines between  *)
(* and beside them.                                                        *)
(***************************************************************************)
MaxSvgLines == 3

SvgLine(x1, y1, x2, y2) ==
    [tag |-> "line", foreign |-> FALSE, x1 |-> Num(x1), y1 |-> Num(y1),
     x2 |-> Num(x2), y2 |-> Num(y2)]

\* the shapes of a file: side by side, one above the other, on a slope
SvgLayouts ==
    {<<Box(0, 0, 100, 40) @@ [stroke |-> "#000000"],
       Box(200, 0, 100, 40) @@ [stroke |-> "#000000"]>>,
     <<Box(0, 0, 100, 40) @@ [stroke |-> "#000000"],
       Box(200, 0, 100, 40) @@ [stroke |-> "#000000"],
       Box(0, 200, 100, 40) @@ [stroke |-> "#000000"]>>,
     <<Box(10, 10, 100, 40) @@ [stroke |-> "#000000"],
       Box(130, 110, 100, 40) @@ [stroke |-> "#000000"]>>}

SvgLineSamples ==
    {SvgLine(100, 20, 200, 20),
     SvgLine(200, 20, 100, 20),
     SvgLine(90, 30, 210, 10) @@ ("stroke-dasharray" :> "4"),
     SvgLine(100, 20, 150, 100),
     SvgLine(10, 20, 90, 20),
     [tag |-> "path", foreign |-> FALSE, d |-> <<50, 40, 50, 200>>]}

SvgEdgesInit ==
    /\ s_pc = "called"
    /\ \E shapes \in SvgLayouts, lines \in SeqsUpTo(SvgLineSamples, MaxSvgLines) :
           s_svg = [parses |-> TRUE, elems |-> shapes \o lines]
    /\ s_scan = Idle
    /\ s_labeled = Idle
    /\ s_ret = Idle
    /\ IdleBut("svg")

SpecSvgEdges == SvgEdgesInit /\ [][SvgNext]_vars

SvgReturned == s_pc = "done" /\ s_ret.outcome = "ast"

\* the connectors both ends of which lie within the tolerance of a shape,
\* the two shapes having different ids, as pairs of ids
ResolvedPairs ==
    {<<s_labeled[a].id, s_labeled[b].id>> :
        <<a, b>> \in {p \in (DOMAIN s_labeled) \X (DOMAIN s_labeled) :
            /\ s_labeled[p[1]].id # s_labeled[p[2]].id
            /\ \E l \in DOMAIN s_scan.raw_lines :
                  /\ _point_near_shape(s_scan.raw_lines[l].start, s_labeled[p[1]].bbox)
                  /\ _point_near_shape(s_scan.raw_lines[l].end, s_labeled[p[2]].bbox)}}

\* C25: every edge of an AST returned by convert_svg_to_ast comes from a
\* line, path or polyline whose two ends each lie within the tolerance of a
\* shape, the two shapes different: its source and target differ, both are
\* ids of nodes of the AST, no two edges have the same ordered
\* (source, target) pair, and a connector with an end near no shape gives
\* no edge.
C25_EdgesFromResolvedConnectors ==
    SvgReturned =>
        LET ast == s_ret.ast
            ids == {ast.nodes[k].id : k \in DOMAIN ast.nodes}
        IN  /\ \A e \in DOMAIN ast.edges :
                  /\ ast.edges[e].source # ast.edges[e].target
                  /\ ast.edges[e].source \in ids /\ ast.edges[e].target \in ids
                  /\ <<ast.edges[e].source, ast.edges[e].target>> \in ResolvedPairs
            /\ \A e, f \in DOMAIN ast.edges :
                  (ast.edges[e].source = ast.edges[f].source
                   /\ ast.edges[e].target = ast.edges[f].target) => e = f

\* two connectors between the same shapes and a third with a loose end:
\* one edge
C25_Witness ==
    /\ SvgReturned
    /\ Len(s_scan.raw_lines) = 3
    /\ Len(s_ret.ast.edges) = 1
    /\ \E l \in DOMAIN s_scan.raw_lines :
          \A k \in DOMAIN s_labeled :
              ~_point_near_shape(s_scan.raw_lines[l].end, s_labeled[k].bbox)
    /\ \E l, m \in DOMAIN s_scan.raw_lines :
          /\ l # m
          /\ NearestShape(s_labeled, s_scan.raw_lines[l].start)
                = NearestShape(s_labeled, s_scan.raw_lines[m].start)
          /\ NearestShape(s_labeled, s_scan.raw_lines[l].end)
                = NearestShape(s_labeled, s_scan.raw_lines[m].end)
          /\ NearestShape(s_labeled, s_scan.raw_lines[l].start) # 0
          /\ NearestShape(s_labeled, s_scan.raw_lines[l].end) # 0
          /\ NearestShape(s_labeled, s_scan.raw_lines[l].start)
                # NearestShape(s_labeled, s_scan.raw_lines[l].end)

\* C26: the direction of an AST returned by convert_svg_to_ast is the one
\* detect_direction gives for the nodes of that AST: LR exactly when the
\* horizontal spread of the shapes exceeds 1.5 times the vertical spread.
C26_SameDirectionRule ==
    SvgReturned => s_ret.ast.direction = detect_direction(s_ret.ast.nodes)

\* shapes on a slope of 120 across and 100 down: LR from the SVG extractor,
\* TB from detect_direction
C26_SlopeDisagrees ==
    /\ SvgReturned
    /\ Len(s_ret.ast.nodes) = 2
    /\ s_ret.ast.nodes[2].x - s_ret.ast.nodes[1].x = 120
    /\ s_ret.ast.nodes[2].y - s_ret.ast.nodes[1].y = 100
    /\ s_ret.ast.direction = "LR"
    /\ detect_direction(s_ret.ast.nodes) = "TB"

(***************************************************************************)
(* The rules engine (extract_rules.py).  A rule is a dict with the keys    *)
(* rule, sev, req, keywords, condition and ast_condition, and _source once *)
(* it is attributed to a page.  The dash of two condition texts is        *)
(* written '-'.                                                            *)
(***************************************************************************)
\* str.upper() on the protocols of the model
Upper(c) ==
    CASE c = "https" -> "HTTPS"
      [] c = "amqp" -> "AMQP"
      [] c = "mTLS" -> "MTLS"
      [] OTHER -> c

\* sorted() on the protocol and zone names of the model
RuleStringOrder ==
    <<"AMQP", "HTTP", "HTTPS", "MTLS", "amqp", "dmz", "external", "http", "https",
      "internal", "mtls">>
SortedStrings(S) == SelectSeq(RuleStringOrder, LAMBDA x : x \in S)

Rule(rule, sev, req, keywords, condition, ast_condition) ==
    [rule |-> rule, sev |-> sev, req |-> req, keywords |-> keywords,
     condition |-> condition, ast_condition |-> ast_condition]

_derive_protocol_rules(edges) ==
    LET protocols == {Upper(edges[i].protocol) :
                        i \in {k \in DOMAIN edges : edges[k].protocol # ""}}
        secure == {"HTTPS", "MTLS", "TLS", "GRPC"}
        insecure == {"HTTP"}
        used_secure == protocols \cap secure
        used_insecure == protocols \cap insecure
        transport ==
            IF used_secure # {} /\ used_insecure = {}
            THEN << Rule("Secure transport", "C", "Y",
                         Join(SortedStrings({Lower(p) : p \in used_secure}), ", "),
                         "All communication uses secure protocols ("
                            \o Join(SortedStrings(used_secure), ", ") \o ")",
                         "edge.protocol IN (" \o Join(SortedStrings(used_secure), ", ") \o ")") >>
            ELSE IF used_insecure # {}
            THEN << Rule("Insecure transport present", "H", "Y",
                         "http, insecure, transport",
                         "Some edges use insecure HTTP - upgrade to HTTPS/TLS",
                         "edge.protocol IN (" \o Join(SortedStrings(used_insecure), ", ") \o ")") >>
            ELSE <<>>
        others == SelectSeq(SortedStrings(protocols),
                            LAMBDA p : p \notin secure /\ p \notin insecure /\ p # "")
    IN  IF protocols = {} THEN <<>>
        ELSE transport \o
             [k \in DOMAIN others |->
                Rule(others[k] \o " protocol used", "M", "N", Lower(others[k]),
                     "Communication protocol " \o others[k] \o " is used between components",
                     "edge.protocol == " \o others[k])]

_derive_zone_rules(groups, nodes) ==
    LET zones == {groups[i].zone_type : i \in DOMAIN groups} \ {""}
        zone_names == Join(SortedStrings(zones), ", ")
    IN  IF zones = {} THEN <<>>
        ELSE << Rule("Zone boundaries defined", "H", "Y", zone_names,
                     "Architecture defines zone boundaries: " \o zone_names,
                     "group.zone_type IN (" \o zone_names \o ")") >>
             \o (IF "dmz" \in zones
                 THEN << Rule("DMZ zone present", "C", "Y", "dmz, perimeter, network",
                              "A DMZ zone separates external traffic from internal services",
                              "group.zone_type == dmz") >>
                 ELSE <<>>)
             \o (IF "external" \in zones /\ "internal" \in zones
                 THEN << Rule("External/internal separation", "C", "Y",
                              "external, internal, isolation",
                              "External and internal zones are explicitly separated",
                              "group.zone_type IN (external, internal)") >>
                 ELSE <<>>)

_derive_role_rules(nodes) ==
    LET \* roles[role][:3], joined: the labels (or ids) of the first three nodes of a role
        First3(role) ==
            LET mine == SelectSeq(nodes, LAMBDA n : n.role = role)
            IN  Join([k \in 1..Min({3, Len(mine)}) |->
                        IF mine[k].label # "" THEN mine[k].label ELSE mine[k].id], ", ")
        Has(role) == \E i \in DOMAIN nodes : nodes[i].role = role
        When(role, rule) == IF Has(role) THEN <<rule>> ELSE <<>>
    IN  When("gateway",
             Rule("API gateway present", "H", "Y", "gateway, api, routing",
                  "Traffic routes through gateway (" \o First3("gateway") \o ")",
                  "node.role == gateway"))
        \o When("load_balancer",
             Rule("Load balancer present", "M", "N", "load balancer, availability, scaling",
                  "Load balancer distributes traffic for availability",
                  "node.role == load_balancer"))
        \o When("datastore",
             Rule("Data stores identified", "H", "Y", "database, datastore, persistence",
                  "Data stores explicitly shown (" \o First3("datastore") \o ")",
                  "node.role == datastore"))
        \o When("cache",
             Rule("Caching layer present", "L", "N", "cache, performance, latency",
                  "Caching layer exists for performance", "node.role == cache"))
        \o When("queue",
             Rule("Async messaging present", "M", "N", "queue, async, messaging, decoupling",
                  "Asynchronous messaging via queues for decoupling", "node.role == queue"))
        \o When("external",
             Rule("External dependencies documented", "H", "Y",
                  "external, dependency, third-party",
                  "External dependencies explicitly shown (" \o First3("external") \o ")",
                  "node.role == external"))

_derive_connectivity_rules_db_one_way(edges, nodes) ==
    LET ids(role) == {nodes[i].id : i \in {k \in DOMAIN nodes : nodes[k].role = role}}
        datastore_ids == ids("datastore")
        gateway_ids == ids("gateway")
        external_ids == ids("external")
        external_bypasses_gateway ==
            \E i \in DOMAIN edges :
                \/ edges[i].source \in external_ids /\ edges[i].target \notin gateway_ids
                \/ edges[i].target \in external_ids /\ edges[i].source \notin gateway_ids
        direct_db ==
            \E i \in DOMAIN edges :
                edges[i].source \in external_ids /\ edges[i].target \in datastore_ids
    IN  IF edges = <<>> THEN <<>>
        ELSE (IF gateway_ids # {} /\ external_ids # {} /\ ~external_bypasses_gateway
              THEN << Rule("External traffic via gateway", "C", "Y",
                           "gateway, external, routing, perimeter",
                           "All external traffic routes through API gateway",
                           "edge(external, *) -> node.role == gateway") >>
              ELSE <<>>)
             \o (IF datastore_ids = {} \/ external_ids = {} THEN <<>>
                 ELSE IF direct_db
                 THEN << Rule("Direct external DB access", "C", "Y",
                              "database, external, direct, access",
                              "External components have direct database access - must be mediated",
                              "edge(external, datastore) EXISTS") >>
                 ELSE << Rule("No direct external DB access", "C", "Y",
                              "database, isolation, access control",
                              "No direct external access to data stores",
                              "NOT edge(external, datastore)") >>)

_derive_connectivity_rules_bypass_one_way(edges, nodes) ==
    LET ids(role) == {nodes[i].id : i \in {k \in DOMAIN nodes : nodes[k].role = role}}
        datastore_ids == ids("datastore")
        gateway_ids == ids("gateway")
        external_ids == ids("external")
        external_bypasses_gateway ==
            \E i \in DOMAIN edges :
                edges[i].source \in external_ids /\ edges[i].target \notin gateway_ids
        direct_db ==
            \E i \in DOMAIN edges :
                \/ edges[i].source \in external_ids /\ edges[i].target \in datastore_ids
                \/ edges[i].target \in external_ids /\ edges[i].source \in datastore_ids
    IN  IF edges = <<>> THEN <<>>
        ELSE (IF gateway_ids # {} /\ external_ids # {} /\ ~external_bypasses_gateway
              THEN << Rule("External traffic via gateway", "C", "Y",
                           "gateway, external, routing, perimeter",
                           "All external traffic routes through API gateway",
                           "edge(external, *) -> node.role == gateway") >>
              ELSE <<>>)
             \o (IF datastore_ids = {} \/ external_ids = {} THEN <<>>
                 ELSE IF direct_db
                 THEN << Rule("Direct external DB access", "C", "Y",
                              "database, external, direct, access",
                              "External components have direct database access - must be mediated",
                              "edge(external, datastore) EXISTS") >>
                 ELSE << Rule("No direct external DB access", "C", "Y",
                              "database, isolation, access control",
                              "No direct external access to data stores",
                              "NOT edge(external, datastore)") >>)

_derive_connectivity_rules(edges, nodes) ==
    LET ids(role) == {nodes[i].id : i \in {k \in DOMAIN nodes : nodes[k].role = role}}
        datastore_ids == ids("datastore")
        gateway_ids == ids("gateway")
        external_ids == ids("external")
        external_bypasses_gateway ==
            \E i \in DOMAIN edges :
                \/ edges[i].source \in external_ids /\ edges[i].target \notin gateway_ids
                \/ edges[i].target \in external_ids /\ edges[i].source \notin gateway_ids
        direct_db ==
            \E i \in DOMAIN edges :
                \/ edges[i].source \in external_ids /\ edges[i].target \in datastore_ids
                \/ edges[i].target \in external_ids /\ edges[i].source \in datastore_ids
    IN  IF edges = <<>> THEN <<>>
        ELSE (IF gateway_ids # {} /\ external_ids # {} /\ ~external_bypasses_gateway
              THEN << Rule("External traffic via gateway", "C", "Y",
                           "gateway, external, routing, perimeter",
                           "All external traffic routes through API gateway",
                           "edge(external, *) -> node.role == gateway") >>
              ELSE <<>>)
             \o (IF datastore_ids = {} \/ external_ids = {} THEN <<>>
                 ELSE IF direct_db
                 THEN << Rule("Direct external DB access", "C", "Y",
                              "database, external, direct, access",
                              "External components have direct database access - must be mediated",
                              "edge(external, datastore) EXISTS") >>
                 ELSE << Rule("No direct external DB access", "C", "Y",
                              "database, isolation, access control",
                              "No direct external access to data stores",
                              "NOT edge(external, datastore)") >>)

extract_rules_from_ast(ast) ==
    _derive_protocol_rules(ast.edges)
    \o _derive_zone_rules(ast.groups, ast.nodes)
    \o _derive_role_rules(ast.nodes)
    \o _derive_connectivity_rules(ast.edges, ast.nodes)

\* an AST file that load_ast cannot load
Unloadable == [unloadable |-> TRUE]

\* key = (r["rule"], r.get("ast_condition", ""))
RuleKey(r) == <<r.rule, Get(r, "ast_condition", "")>>

\* the first record of every key, in input order
_deduplicate_rules(rules) ==
    LET unique == SelectSeq([i \in DOMAIN rules |-> i],
                    LAMBDA i : \A k \in 1..(i - 1) : RuleKey(rules[k]) # RuleKey(rules[i]))
    IN  [k \in DOMAIN unique |-> rules[unique[k]]]

extract_rules_from_page(ast_files) ==
    LET loaded == SelectSeq(ast_files, LAMBDA f : f # Unloadable)
        all_rules == Flatten([k \in DOMAIN loaded |-> extract_rules_from_ast(loaded[k])])
    IN  _deduplicate_rules(all_rules)

\* sev_rank.get(sev, 9)
sev_rank(sev) ==
    CASE sev = "C" -> 0 [] sev = "H" -> 1 [] sev = "M" -> 2 [] sev = "L" -> 3 [] OTHER -> 9

_deduplicate_rules_first_seen(rules) ==
    LET unique == SelectSeq([i \in DOMAIN rules |-> i],
                    LAMBDA i : \A k \in 1..(i - 1) : RuleKey(rules[k]) # RuleKey(rules[i]))
    IN  [k \in DOMAIN unique |-> rules[unique[k]]]

\* the loop over rules: best is the dict, as the list of its values in
\* insertion order of their keys
RECURSIVE BestLoop(_, _)
BestLoop(rules, best) ==
    IF rules = <<>> THEN best
    ELSE LET r == Head(rules)
             at == {k \in DOMAIN best : RuleKey(best[k]) = RuleKey(r)}
         IN  BestLoop(Tail(rules),
                IF at = {} THEN Append(best, r)
                ELSE IF sev_rank(r.sev) < sev_rank(best[Min(at)].sev)
                THEN [best EXCEPT ![Min(at)] = r]
                ELSE best)

_deduplicate_rules_with_source(rules) == BestLoop(rules, <<>>)

\* The two files the engine writes, without their timestamps.  A table row
\* is the list of the cells line.split("|")[1:-1] finds in it, stripped; a
\* file is <<>> while it does not exist.
\* str.split("|") on the cell texts of the model
SplitPipe(text) ==
    CASE text = "Data stores explicitly shown (Ledger|EU)" ->
            <<"Data stores explicitly shown (Ledger", "EU)">>
      [] OTHER -> <<text>>

\* the cells of the line '| ' + ' | '.join(values) + ' |'
RowCells(values) == Flatten([i \in DOMAIN values |-> SplitPipe(values[i])])

\* md5 of the first 64KB, for the contents of the model: "v1" and "v2"
\* differ in their first 64KB, "v1+" is "v1" with bytes added after them
_fingerprint(content) ==
    CASE content = "v1" -> "0123456789ab"
      [] content = "v1+" -> "0123456789ab"
      [] content = "v2" -> "ba9876543210"

write_rules_md(rules, page_id, page_md) ==
    [page_id |-> page_id,
     fingerprint |-> IF page_md = <<>> THEN "unknown" ELSE _fingerprint(page_md[1]),
     rows |-> [i \in DOMAIN rules |->
                RowCells(<<"R-" \o ToString(i), rules[i].rule, rules[i].sev, rules[i].req,
                           rules[i].keywords, rules[i].condition,
                           Get(rules[i], "ast_condition", "")>>)]]

\* the rows of the 'All Rules' table read back as dicts
_parse_all_rules(all_rules_md) ==
    IF all_rules_md = <<>> THEN <<>>
    ELSE LET rows == SelectSeq(all_rules_md[1].rows, LAMBDA cols : Len(cols) >= 7)
         IN  [i \in DOMAIN rows |->
                Rule(rows[i][2], rows[i][3], rows[i][4], rows[i][5], rows[i][6], rows[i][7])
                @@ [_source |-> IF Len(rows[i]) > 7 THEN rows[i][8] ELSE ""]]

\* for r in new_rules: r["_source"] = page_id
WithSource(r, page_id) ==
    [k \in DOMAIN r \cup {"_source"} |-> IF k = "_source" THEN page_id ELSE r[k]]

\* filtered + new_rules, the list update_all_rules deduplicates
MergedRules(all_rules_md, page_id, new_rules) ==
    SelectSeq(_parse_all_rules(all_rules_md), LAMBDA r : Get(r, "_source", None) # page_id)
    \o [i \in DOMAIN new_rules |-> WithSource(new_rules[i], page_id)]

\* sorted() on the source names of the model
SourceOrder == <<"node.role == datastore", "p1", "p2">>

\* the content of _all.rules.md written for the list merged
AllRulesMd(merged) ==
    LET sources == SelectSeq(SourceOrder, LAMBDA p : \E i \in DOMAIN merged : merged[i]._source = p)
        Count(P(_)) == Cardinality({i \in DOMAIN merged : P(merged[i])})
    IN  [sources |-> [k \in DOMAIN sources |->
                        <<sources[k], Count(LAMBDA r : r._source = sources[k])>>],
         summary |-> [Critical |-> Count(LAMBDA r : r.sev = "C"),
                      High |-> Count(LAMBDA r : r.sev = "H"),
                      Medium |-> Count(LAMBDA r : r.sev = "M"),
                      Low |-> Count(LAMBDA r : r.sev = "L"),
                      Total |-> Len(merged)],
         rows |-> [i \in DOMAIN merged |->
                    RowCells(<<"R-" \o ToString(i), merged[i].rule, merged[i].sev,
                               merged[i].req, merged[i].keywords, merged[i].condition,
                               Get(merged[i], "ast_condition", ""), merged[i]._source>>)]]

update_all_rules(all_rules_md, page_id, new_rules) ==
    AllRulesMd(_deduplicate_rules_with_source(MergedRules(all_rules_md, page_id, new_rules)))

(***************************************************************************)
(* The rules engine as a state machine over the files of one index: each   *)
(* page's page.md and rules.md and the consolidated _all.rules.md.         *)
(* extract_and_write_rules runs for a page whose output directory holds    *)
(* some AST files; update_all_rules is also called with a rule list of the *)
(* caller's.  r_dedups keeps the deduplications of the last call.          *)
(***************************************************************************)
Pages == {"p1", "p2"}

RuleNode(id, label, role) == DiagramNode([id |-> id, label |-> label, role |-> role])
RuleEdge(source, target, protocol) ==
    DiagramEdge([id |-> source \o "-" \o target, source |-> source, target |-> target,
                 protocol |-> protocol])

AstFileSamples ==
    {DiagramAST([nodes |-> <<RuleNode("gw", "Api Gateway", "gateway"),
                             RuleNode("ext", "Partner", "external"),
                             RuleNode("db", "Orders DB", "datastore")>>,
                 edges |-> <<RuleEdge("ext", "gw", "https"), RuleEdge("gw", "db", "amqp")>>]),
     DiagramAST([nodes |-> <<RuleNode("ext", "", "external"),
                             RuleNode("db", "Ledger|EU", "datastore")>>,
                 edges |-> <<RuleEdge("ext", "db", "HTTP")>>,
                 groups |-> <<DiagramGroup([id |-> "z", label |-> "DMZ", zone_type |-> "dmz"])>>]),
     Unloadable}

\* rule lists a caller hands to update_all_rules: one key with two
\* severities, as a hand-edited record has them
RuleSamples ==
    {Rule("API gateway present", "H", "Y", "gateway, api, routing",
          "Traffic routes through gateway (Api Gateway)", "node.role == gateway"),
     Rule("API gateway present", "C", "Y", "gateway, api, routing",
          "Traffic routes through gateway (Edge)", "node.role == gateway")}

DedupStep(step, input, output) == [step |-> step, input |-> input, output |-> output]
RulesCall(op, page_id, new_rules) ==
    [op |-> op, page_id |-> page_id, new_rules |-> new_rules, before |-> r_all_rules_md]

RulesInit ==
    /\ r_ops = 0
    \* page.md of p1 is there; that of p2 may not have been written yet
    /\ r_page_md \in {pm \in [Pages -> {<<>>, <<"v1">>}] : pm["p1"] # <<>>}
    /\ r_rules_md = [p \in Pages |-> <<>>]
    /\ r_all_rules_md = <<>>
    /\ r_dedups = <<>>
    /\ r_call = <<>>
    /\ IdleBut("rules")

\* extract_and_write_rules for a page whose output directory holds ast_files
ExtractAndWrite(page_id, ast_files) ==
        LET loaded == SelectSeq(ast_files, LAMBDA f : f # Unloadable)
            all_rules == Flatten([k \in DOMAIN loaded |-> extract_rules_from_ast(loaded[k])])
            rules == extract_rules_from_page(ast_files)
            merged == MergedRules(r_all_rules_md, page_id, rules)
        IN  /\ r_rules_md' = [r_rules_md EXCEPT
                                ![page_id] = <<write_rules_md(rules, page_id, r_page_md[page_id])>>]
            /\ r_all_rules_md' = <<update_all_rules(r_all_rules_md, page_id, rules)>>
            /\ r_dedups' = <<DedupStep("page", all_rules, rules),
                             DedupStep("consolidated", merged,
                                       _deduplicate_rules_with_source(merged))>>
            /\ r_call' = <<RulesCall("extract_and_write_rules", page_id, rules)>>
            /\ r_ops' = r_ops + 1
            /\ UNCHANGED <<r_page_md, notRules>>

extract_and_write_rules ==
    /\ r_ops < MaxRuleOps
    /\ \E page_id \in Pages, ast_files \in SeqsUpTo(AstFileSamples, MaxAstFiles) :
          ExtractAndWrite(page_id, ast_files)

UpdateAllRules ==
    /\ r_ops < MaxRuleOps
    /\ \E page_id \in Pages, new_rules \in SeqsUpTo(RuleSamples, MaxNewRules) :
        LET merged == MergedRules(r_all_rules_md, page_id, new_rules)
        IN  /\ r_all_rules_md' = <<update_all_rules(r_all_rules_md, page_id, new_rules)>>
            /\ r_dedups' = <<DedupStep("consolidated", merged,
                                       _deduplicate_rules_with_source(merged))>>
            /\ r_call' = <<RulesCall("update_all_rules", page_id, new_rules)>>
    /\ r_ops' = r_ops + 1
    /\ UNCHANGED <<r_page_md, r_rules_md, notRules>>

RulesNext == extract_and_write_rules \/ UpdateAllRules

SpecRules == RulesInit /\ [][RulesNext]_vars

(***************************************************************************)
(* Claims about the deduplication steps.                                   *)
(***************************************************************************)
Reverse(s) == [i \in DOMAIN s |-> s[Len(s) + 1 - i]]
KeysOf(rules) == {RuleKey(rules[i]) : i \in DOMAIN rules}
\* the (key, sev) pairs of a rule list
SevByKey(rules) == {<<RuleKey(rules[i]), rules[i].sev>> : i \in DOMAIN rules}
Dedup(step, rules) ==
    IF step = "page" THEN _deduplicate_rules(rules) ELSE _deduplicate_rules_with_source(rules)

\* C10: every deduplication step, of the AST files of one page and of the
\* pages of the consolidated file, returns exactly one record per
\* (rule, ast_condition) key of its input; that record is an input record
\* whose sev is the most severe (C before H before M before L) among the
\* input records with the key, and feeding the input in the opposite order
\* gives the same severity for every key.
C10_DedupMostSevere ==
    \A d \in DOMAIN r_dedups :
        LET input == r_dedups[d].input
            output == r_dedups[d].output
        IN  /\ \A i, k \in DOMAIN output :
                    RuleKey(output[i]) = RuleKey(output[k]) => i = k
            /\ KeysOf(output) = KeysOf(input)
            /\ \A i \in DOMAIN output :
                /\ output[i] \in Range(input)
                /\ \A k \in DOMAIN input :
                        RuleKey(input[k]) = RuleKey(output[i]) =>
                            sev_rank(output[i].sev) <= sev_rank(input[k].sev)
            /\ SevByKey(Dedup(r_dedups[d].step, Reverse(input))) = SevByKey(output)

\* a consolidation whose input holds a key first with sev H, from one page,
\* and then with sev C, from another, and whose output has it with sev C
C10_Witness ==
    \E d \in DOMAIN r_dedups :
        LET input == r_dedups[d].input
            output == r_dedups[d].output
        IN  /\ r_dedups[d].step = "consolidated"
            /\ \E i, k \in DOMAIN input :
                /\ i < k /\ RuleKey(input[i]) = RuleKey(input[k])
                /\ input[i].sev = "H" /\ input[k].sev = "C"
                /\ input[i]._source # input[k]._source
            /\ \E i \in DOMAIN output :
                output[i].rule = "API gateway present" /\ output[i].sev = "C"


(***************************************************************************)
(* Claims about update_all_rules as a frame: what a call for page P with   *)
(* rule list R leaves of the consolidated file it found.                   *)
(***************************************************************************)
CallPage == r_call[1].page_id
CallRules == r_call[1].new_rules
RulesBefore == _parse_all_rules(r_call[1].before)
RulesAfter == _parse_all_rules(r_all_rules_md)
AfterOfPageFromCall ==
    \A i \in DOMAIN RulesAfter :
        RulesAfter[i]._source = CallPage =>
            \E k \in DOMAIN CallRules : RulesAfter[i] = WithSource(CallRules[k], CallPage)

\* C11 as stated: after update_all_rules(index_dir, P, R) every record the
\* consolidated file attributed to a page Q # P is still present, unchanged,
\* and every record attributed to P is a record of R.
C11_OtherPagesUntouched ==
    r_call # <<>> =>
        /\ \A i \in DOMAIN RulesBefore :
                RulesBefore[i]._source # CallPage => RulesBefore[i] \in Range(RulesAfter)
        /\ AfterOfPageFromCall


(***************************************************************************)
(* extract_rules_from_ast as a state machine: an AST whose nodes n1, n2,   *)
(* ... carry any of four roles and whose edges run between them is handed  *)
(* to extract_rules_from_ast.                                              *)
(***************************************************************************)
DeriveRoles == {"external", "gateway", "datastore", "service"}

DeriveEdgeSamples ==
    {RuleEdge("n1", "n2", "https"), RuleEdge("n2", "n1", "HTTP"),
     RuleEdge("n1", "n3", "amqp"), RuleEdge("n3", "n2", ""),
     RuleEdge("n2", "n3", "mTLS")}

DeriveInit ==
    /\ x_pc = "called"
    /\ \E roles \in SeqsUpTo(DeriveRoles, MaxRuleNodes),
          edges \in SeqsUpTo(DeriveEdgeSamples, MaxRuleEdges) :
            x_ast = DiagramAST(
                [nodes |-> [i \in DOMAIN roles |->
                                RuleNode("n" \o ToString(i), "", roles[i])],
                 edges |-> edges])
    /\ x_rules = Idle
    /\ IdleBut("derive")

ExtractRulesFromAst ==
    /\ x_pc = "called"
    /\ x_rules' = extract_rules_from_ast(x_ast)
    /\ x_pc' = "done"
    /\ UNCHANGED <<x_ast, notDerive>>

SpecDerive == DeriveInit /\ [][ExtractRulesFromAst]_vars


(***************************************************************************)
(* Claims about the rules extract_rules_from_ast derives.                  *)
(***************************************************************************)
Emits(name) == \E i \in DOMAIN x_rules : x_rules[i].rule = name
EmitCount(name) == Cardinality({i \in DOMAIN x_rules : x_rules[i].rule = name})
\* the protocols present on the edges, in upper case
PresentProtocols ==
    {Upper(x_ast.edges[i].protocol) : i \in DOMAIN x_ast.edges} \ {""}
SecureSet == {"HTTPS", "MTLS", "TLS", "GRPC"}
NodesOfRole(role) == {i \in DOMAIN x_ast.nodes : x_ast.nodes[i].role = role}
IdsOfRole(role) == {x_ast.nodes[i].id : i \in NodesOfRole(role)}
\* the edge joins a node of ids with a node of others, in either direction
EdgeJoins(e, ids, others) ==
    \/ e.source \in ids /\ e.target \in others
    \/ e.target \in ids /\ e.source \in others

\* C12: "Secure transport" is emitted if and only if at least one edge
\* carries a protocol and every protocol present on the edges is in the
\* secure set {HTTPS, mTLS, TLS, gRPC}; "Insecure transport present" is
\* emitted if and only if some edge uses HTTP; the two rules are never
\* emitted for the same AST.
C12_ProtocolRules ==
    x_pc = "done" =>
        /\ Emits("Secure transport") <=>
                (PresentProtocols # {} /\ PresentProtocols \subseteq SecureSet)
        /\ Emits("Insecure transport present") <=> "HTTP" \in PresentProtocols
        /\ ~(Emits("Secure transport") /\ Emits("Insecure transport present"))

\* the failing input: an edge over https and an edge over amqp, for which
\* "Secure transport" is emitted beside "AMQP protocol used"
C12_SecureBesideOtherProtocol ==
    /\ x_pc = "done"
    /\ PresentProtocols = {"HTTPS", "AMQP"}
    /\ Emits("Secure transport")
    /\ Emits("AMQP protocol used")

\* C13 as stated: for every AST with a node of role external and a node of
\* role datastore, exactly one of "Direct external DB access" and "No direct
\* external DB access" is emitted: the first if some edge joins an external
\* node and a datastore node, the second otherwise, also without any edge.
C13_ExactlyOne ==
    (x_pc = "done" /\ NodesOfRole("external") # {} /\ NodesOfRole("datastore") # {}) =>
        LET direct == \E i \in DOMAIN x_ast.edges :
                        EdgeJoins(x_ast.edges[i], IdsOfRole("external"), IdsOfRole("datastore"))
        IN  /\ EmitCount("Direct external DB access") = (IF direct THEN 1 ELSE 0)
            /\ EmitCount("No direct external DB access") = (IF direct THEN 0 ELSE 1)

\* C13, amended: for every AST with a node of role external, a node of role
\* datastore and at least one edge, exactly one of the two rules is emitted,
\* the first if some edge joins an external node and a datastore node, the
\* second otherwise; for an AST without edges neither rule is emitted.
C13_ExactlyOneWithEdges ==
    (x_pc = "done" /\ NodesOfRole("external") # {} /\ NodesOfRole("datastore") # {}) =>
        LET direct == \E i \in DOMAIN x_ast.edges :
                        EdgeJoins(x_ast.edges[i], IdsOfRole("external"), IdsOfRole("datastore"))
        IN  IF x_ast.edges = <<>>
            THEN ~Emits("Direct external DB access") /\ ~Emits("No direct external DB access")
            ELSE /\ EmitCount("Direct external DB access") = (IF direct THEN 1 ELSE 0)
                 /\ EmitCount("No direct external DB access") = (IF direct THEN 0 ELSE 1)

\* an AST whose only edge runs from a datastore to an external node
C13_Witness ==
    /\ x_pc = "done"
    /\ Len(x_ast.edges) = 1
    /\ x_ast.edges[1].source \in IdsOfRole("datastore")
    /\ x_ast.edges[1].target \in IdsOfRole("external")
    /\ Emits("Direct external DB access")
    /\ ~Emits("No direct external DB access")

\* C14: whenever "External traffic via gateway" is emitted, no edge has an
\* external node at one end and a node whose role is not gateway at the
\* other, in either direction, and "Direct external DB access" is not
\* emitted.
C14_ViaGateway ==
    (x_pc = "done" /\ Emits("External traffic via gateway")) =>
        /\ \A i \in DOMAIN x_ast.edges :
                ~EdgeJoins(x_ast.edges[i], IdsOfRole("external"),
                           {x_ast.nodes[k].id : k \in DOMAIN x_ast.nodes}
                                \ IdsOfRole("gateway"))
        /\ ~Emits("Direct external DB access")

\* an AST with an external node, a gateway and a datastore whose edges run
\* from the gateway to the external node and between gateway and datastore
C14_Witness ==
    /\ x_pc = "done"
    /\ Emits("External traffic via gateway")
    /\ Emits("No direct external DB access")
    /\ \E i \in DOMAIN x_ast.edges :
            x_ast.edges[i].target \in IdsOfRole("external")
                /\ x_ast.edges[i].source \in IdsOfRole("gateway")
    /\ \E i \in DOMAIN x_ast.edges :
            EdgeJoins(x_ast.edges[i], IdsOfRole("gateway"), IdsOfRole("datastore"))


(***************************************************************************)
(* PlantUML arrows (plantuml_to_ast.py).  An arrow string is a sequence of *)
(* glyphs; the colour annotation "[#red]", which the code matches with one *)
(* regular expression and removes, is one glyph.                           *)
(***************************************************************************)
MaxArrowLen == 4

Glyphs == {"<", ">", "-", ".", "=", "x", "o", "+", "[#red]"}

IsColorTag(g) == g = "[#red]"

resolve_color(color_str) == IF color_str = "[#red]" THEN "#FF0000" ELSE None

\* re.sub(r'\[#[^\]]+\]', '', arrow)
RemoveColor(arrow) == SelectSeq(arrow, LAMBDA g : ~IsColorTag(g))

\* re.search(r'[>x]gg$', arrow) for a glyph g
EndsInDouble(arrow, g) ==
    /\ Len(arrow) >= 3
    /\ arrow[Len(arrow)] = g /\ arrow[Len(arrow) - 1] = g
    /\ arrow[Len(arrow) - 2] \in {">", "x"}

\* arrow.endswith(g) and re.search(r'[-.>=]g$', arrow)
EndsInAfterLine(arrow, g) ==
    /\ Len(arrow) >= 2
    /\ arrow[Len(arrow)] = g
    /\ arrow[Len(arrow) - 1] \in {"-", ".", ">", "="}

DropLast(arrow, n) == SubSeq(arrow, 1, Len(arrow) - n)

RECURSIVE LStrip(_, _)
LStrip(arrow, g) ==
    IF arrow # <<>> /\ Head(arrow) = g THEN LStrip(Tail(arrow), g) ELSE arrow

RECURSIVE RStrip(_, _)
RStrip(arrow, g) ==
    IF arrow # <<>> /\ arrow[Len(arrow)] = g THEN RStrip(DropLast(arrow, 1), g) ELSE arrow

\* g + g in core
HasDouble(core, g) == \E i \in 1..(Len(core) - 1) : core[i] = g /\ core[i + 1] = g

ArrowStyle(core) ==
    IF HasDouble(core, "=") THEN "thick"
    ELSE IF HasDouble(core, ".") THEN "dotted"
    ELSE IF Len(core) >= 2 /\ \A i \in DOMAIN core : core[i] = "-" THEN "dashed"
    ELSE "solid"

\* parse_arrow with has_end recomputed from the trailing '>' also for a lost
\* message
parse_arrow_lost_unguarded(arrow) ==
    LET colors == SelectSeq(arrow, IsColorTag)
        a0 == RemoveColor(arrow)
        activate == IF EndsInDouble(a0, "+") THEN 1
                    ELSE IF EndsInDouble(a0, "-") THEN -1 ELSE 0
        a1 == IF activate # 0 THEN DropLast(a0, 2) ELSE a0
        lost == EndsInAfterLine(a1, "x")
        a2 == IF lost THEN DropLast(a1, 1) ELSE a1
        a3 == IF EndsInAfterLine(a2, "o") THEN DropLast(a2, 1) ELSE a2
    IN  [style |-> ArrowStyle(RStrip(LStrip(a3, "<"), ">")),
         has_start |-> a3 # <<>> /\ Head(a3) = "<",
         has_end |-> a3 # <<>> /\ a3[Len(a3)] = ">",
         color |-> IF colors # <<>> THEN resolve_color(colors[1]) ELSE None,
         lost |-> lost,
         activate |-> activate]

parse_arrow(arrow) ==
    LET colors == SelectSeq(arrow, IsColorTag)
        a0 == RemoveColor(arrow)
        activate == IF EndsInDouble(a0, "+") THEN 1
                    ELSE IF EndsInDouble(a0, "-") THEN -1 ELSE 0
        a1 == IF activate # 0 THEN DropLast(a0, 2) ELSE a0
        lost == EndsInAfterLine(a1, "x")
        a2 == IF lost THEN DropLast(a1, 1) ELSE a1
        a3 == IF EndsInAfterLine(a2, "o") THEN DropLast(a2, 1) ELSE a2
    IN  [style |-> ArrowStyle(RStrip(LStrip(a3, "<"), ">")),
         has_start |-> a3 # <<>> /\ Head(a3) = "<",
         has_end |-> IF lost THEN FALSE ELSE a3 # <<>> /\ a3[Len(a3)] = ">",
         color |-> IF colors # <<>> THEN resolve_color(colors[1]) ELSE None,
         lost |-> lost,
         activate |-> activate]

ArrowInit ==
    /\ IdleBut("puml")
    /\ p_pc = "called"
    /\ p_arrow \in SeqsUpTo(Glyphs, MaxArrowLen)
    /\ p_parsed = <<>>
    /\ p_content = <<>> /\ p_data = Idle /\ p_ast = Idle

ParseArrow ==
    /\ p_pc = "called"
    /\ p_pc' = "done"
    /\ p_parsed' = <<parse_arrow(p_arrow)>>
    /\ UNCHANGED <<p_arrow, p_content, p_data, p_ast>>
    /\ UNCHANGED notPuml

SpecArrow == ArrowInit /\ [][ParseArrow]_vars

Parsed == p_parsed[1]

\* the arrow as written, without its colour annotation
Written == RemoveColor(p_arrow)

Suffix(arrow, n) == SubSeq(arrow, Len(arrow) - n + 1, Len(arrow))

AfterArrowhead(arrow, suffix) ==
    /\ Len(arrow) >= 3
    /\ Suffix(arrow, 2) = suffix
    /\ arrow[Len(arrow) - 2] \in {">", "x"}

\* the arrow without its activation suffix
Unsuffixed ==
    IF AfterArrowhead(Written, <<"+", "+">>) \/ AfterArrowhead(Written, <<"-", "-">>)
    THEN DropLast(Written, 2) ELSE Written

\* the lost-message terminator: an x that ends the arrow after a line or an
\* arrowhead
LostTerminator ==
    /\ Len(Unsuffixed) >= 2
    /\ Unsuffixed[Len(Unsuffixed)] = "x"
    /\ Unsuffixed[Len(Unsuffixed) - 1] \in {"-", ".", "=", ">"}

\* C18: activate is +1 / -1 exactly when the arrow ends in ++ / -- right
\* after an arrowhead character (> or x) and 0 for every other string, a
\* connector that merely ends in dashes included; an arrow with the
\* lost-message x terminator has lost = true and has_end = false whatever
\* else it contains; "->++" gives has_end and activate 1, "-->x" gives lost
\* and no has_end.
C18_ActivationAndLost ==
    p_parsed # <<>> =>
        /\ Parsed.activate = (IF AfterArrowhead(Written, <<"+", "+">>) THEN 1
                              ELSE IF AfterArrowhead(Written, <<"-", "-">>) THEN -1
                              ELSE 0)
        /\ LostTerminator => Parsed.lost /\ ~Parsed.has_end
        /\ Parsed.lost => ~Parsed.has_end
        /\ p_arrow = <<"-", ">", "+", "+">> => Parsed.has_end /\ Parsed.activate = 1
        /\ p_arrow = <<"-", "-", ">", "x">> => Parsed.lost /\ ~Parsed.has_end

C18_Witness ==
    /\ p_parsed # <<>>
    /\ p_arrow = <<"-", "-", ">", "x">>
    /\ Parsed.lost /\ ~Parsed.has_end /\ Parsed.activate = 0

C18_DashedConnector ==
    /\ p_parsed # <<>>
    /\ p_arrow = <<"-", "-">>
    /\ Parsed.activate = 0 /\ ~Parsed.has_end

\* C19: "<-->" parses to has_start, has_end and style "solid"; an arrow that
\* starts with < and ends with > has both arrowheads, and its style is solid
\* unless its body holds a run of '.' (dotted) or a run of '=' (thick).
C19_Bidirectional ==
    (p_parsed # <<>> /\ Written # <<>> /\ Head(Written) = "<"
        /\ Written[Len(Written)] = ">") =>
        /\ Parsed.has_start /\ Parsed.has_end
        /\ Parsed.style = (IF HasDouble(Written, "=") THEN "thick"
                           ELSE IF HasDouble(Written, ".") THEN "dotted"
                           ELSE "solid")

C19_DashedNotSolid ==
    /\ p_parsed # <<>>
    /\ p_arrow = <<"<", "-", "-", ">">>
    /\ Parsed.has_start /\ Parsed.has_end /\ Parsed.style = "dashed"


(***************************************************************************)
(* PlantUML text (plantuml_to_ast.py).  The content is the sequence of its *)
(* lines, stripped; a line is described by its lexical form, from which    *)
(* each regular expression of the parsers is decided:                      *)
(*   skip     blank, "' comment" or "@startuml": skipped by every parser   *)
(*   other    text no pattern matches, such as "activate A"                *)
(*   open     keyword "label" as alias {      (alias "" when absent)       *)
(*   close    }                                                            *)
(*   bracket  [label] as alias                                             *)
(*   decl     keyword name as alias #color    (name quoted or not)         *)
(*   arrow    src arrow dst : label           (src and dst are words or    *)
(*            the pseudostate "[*]", the                                   *)
(*            arrow a glyph sequence, set off by blanks or not; an arrow   *)
(*            set against its words starts with no letter glyph)           *)
(* The contents of the model hold no class and no state declaration.       *)
(***************************************************************************)
MaxSeqLines == 3
MaxCompLines == 4

Skip(text) == [form |-> "skip", text |-> text]
Other(text) == [form |-> "other", text |-> text]
Open(keyword, label, alias) ==
    [form |-> "open", keyword |-> keyword, label |-> label, alias |-> alias]
Close == [form |-> "close"]
Bracket(label, alias) == [form |-> "bracket", label |-> label, alias |-> alias]
Decl(keyword, name, quoted, alias) ==
    [form |-> "decl", keyword |-> keyword, name |-> name, quoted |-> quoted,
     alias |-> alias]
Arrow(src, arrow, dst, colon, label, spaced) ==
    [form |-> "arrow", src |-> src, arrow |-> arrow, dst |-> dst,
     colon |-> colon, label |-> label, spaced |-> spaced]

HasKeyword(line, keywords) ==
    line.form \in {"open", "decl"} /\ line.keyword \in keywords

\* re.search(r'\s', name) for the names of the model
HasBlank(name) == name \in {"Order Service", "Orders DB", "Zone A", "Zone B"}

\* r'actor\s+\w+\s': the word after 'actor' is followed by white space, which
\* may be the end of the line when another line follows
ActorWordBlank(content, i) ==
    /\ HasKeyword(content[i], {"actor"}) /\ content[i].form = "decl"
    /\ ~content[i].quoted
    /\ (i < Len(content) \/ content[i].alias # "" \/ HasBlank(content[i].name))

\* r'\w+\s*-+>+\s*\w+\s*:'
ArrowThenColon(line) ==
    /\ line.form = "arrow" /\ line.colon
    /\ line.src # "[*]" /\ line.dst # "[*]"
    /\ \E d \in 1..(Len(line.arrow) - 1) :
          \A k \in DOMAIN line.arrow : line.arrow[k] = (IF k <= d THEN "-" ELSE ">")

\* '[*] -->' in line
StartTransition(line) ==
    /\ line.form = "arrow" /\ line.src = "[*]" /\ line.spaced
    /\ Len(line.arrow) >= 3 /\ SubSeq(line.arrow, 1, 3) = <<"-", "-", ">">>

detect_diagram_type(content) ==
    LET haskw(kws) == \E i \in DOMAIN content : HasKeyword(content[i], kws)
    IN  IF /\ \/ haskw({"participant"})
              \/ \E i \in DOMAIN content : ActorWordBlank(content, i)
              \/ \E i \in DOMAIN content : ArrowThenColon(content[i])
           /\ ~haskw({"class"}) /\ ~haskw({"package"})
        THEN "sequence"
        ELSE IF haskw({"class", "interface"}) THEN "class"
        ELSE IF (\E i \in DOMAIN content : StartTransition(content[i])) \/ haskw({"state"})
             THEN "state"
        ELSE IF haskw({"package", "component", "node", "folder", "cloud", "database"})
             THEN "component"
        ELSE "component"

\* A dict in insertion order: the sequence of its [key, value] items.
DictKeys(d) == {d[i].key : i \in DOMAIN d}
DictGet(d, k) == d[CHOOSE i \in DOMAIN d : d[i].key = k].value
\* d[k] = v: a key already present keeps its position
DictPut(d, k, v) ==
    IF k \in DictKeys(d)
    THEN [i \in DOMAIN d |-> IF d[i].key = k THEN [key |-> k, value |-> v] ELSE d[i]]
    ELSE Append(d, [key |-> k, value |-> v])

\* the positions an optional glyph of the set gs leaves a match at
OptGlyph(P, arrow, gs) ==
    P \cup {p + 1 : p \in {q \in P : q < Len(arrow) /\ arrow[q + 1] \in gs}}

\* the positions (?:-+|\.\.|==) leaves a match at
LinePart(P, arrow) ==
    {q \in 1..Len(arrow) :
        \E p \in P :
            /\ p < q
            /\ \/ \A i \in (p + 1)..q : arrow[i] = "-"
               \/ q = p + 2 /\ arrow[p + 1] = "." /\ arrow[p + 2] = "."
               \/ q = p + 2 /\ arrow[p + 1] = "=" /\ arrow[p + 2] = "="}

\* the positions (?:\+\+|--)? leaves a match at
OptSuffix(P, arrow) ==
    P \cup {p + 2 : p \in {q \in P : /\ q + 2 <= Len(arrow)
                                      /\ arrow[q + 1] = arrow[q + 2]
                                      /\ arrow[q + 1] \in {"+", "-"}}}

\* the arrow pattern of the message expression takes the whole arrow:
\* <?(?:-+|\.\.|==)(?:\[#[^\]]+\])?(?:-+|\.\.|==)?(?:[>])?(?:[>])?(?:[xo])?(?:\+\+|--)?
MessageArrow(arrow) ==
    LET p1 == OptGlyph({0}, arrow, {"<"})
        p2 == LinePart(p1, arrow)
        p3 == OptGlyph(p2, arrow, {"[#red]"})
        p4 == p3 \cup LinePart(p3, arrow)
        p5 == OptGlyph(OptGlyph(p4, arrow, {">"}), arrow, {">"})
        p6 == OptGlyph(p5, arrow, {"x", "o"})
    IN  Len(arrow) \in OptSuffix(p6, arrow)

SequenceKeywords == {"participant", "actor", "entity", "boundary", "control",
                     "database", "collections", "queue"}

\* re.sub(r'[^a-zA-Z0-9]', '', name) for the names of the model
AlnumOnly(name) ==
    CASE name = "Order Service" -> "OrderService"
      [] name = "Orders DB" -> "OrdersDB"
      [] name = "A as B" -> "AasB"
      [] OTHER -> name

\* what the second declaration pattern takes for the name: up to the end of
\* the line, an unquoted 'as alias' included
BareName(line) ==
    IF line.alias = "" THEN line.name ELSE line.name \o " as " \o line.alias

RECURSIVE SequenceLoop(_, _, _, _)
SequenceLoop(content, i, participants, messages) ==
    IF i > Len(content) THEN [participants |-> participants, messages |-> messages]
    ELSE LET line == content[i]
         IN  IF line.form = "skip"
             THEN SequenceLoop(content, i + 1, participants, messages)
             ELSE IF HasKeyword(line, SequenceKeywords) /\ line.form = "decl"
                     /\ line.quoted /\ line.alias # ""
             THEN SequenceLoop(content, i + 1,
                               DictPut(participants, line.alias, line.name), messages)
             ELSE IF HasKeyword(line, SequenceKeywords) /\ line.form = "decl"
             THEN LET name == BareName(line)
                  IN  SequenceLoop(content, i + 1,
                                   DictPut(DictPut(participants, AlnumOnly(name), name),
                                           name, name),
                                   messages)
             ELSE IF line.form = "arrow" /\ line.spaced /\ MessageArrow(line.arrow)
                     /\ line.src # "[*]" /\ line.dst # "[*]"
             THEN LET withSrc == IF line.src \in DictKeys(participants) THEN participants
                                 ELSE DictPut(participants, line.src, line.src)
                      withDst == IF line.dst \in DictKeys(withSrc) THEN withSrc
                                 ELSE DictPut(withSrc, line.dst, line.dst)
                      parsed == parse_arrow(line.arrow)
                  IN  SequenceLoop(content, i + 1, withDst,
                                   Append(messages,
                                          [src |-> line.src, dst |-> line.dst,
                                           label |-> line.label,
                                           style |-> parsed.style,
                                           arrow_start |-> parsed.has_start,
                                           arrow_end |-> parsed.has_end]))
             ELSE SequenceLoop(content, i + 1, participants, messages)

_parse_sequence_data(content) == SequenceLoop(content, 1, <<>>, <<>>)

\* _sequence_data_to_ast with sequence_order counted from 0
_sequence_data_to_ast_from_zero(participants, messages) ==
    DiagramAST([nodes |-> [k \in DOMAIN participants |->
                              DiagramNode([id |-> participants[k].key,
                                           label |-> participants[k].value,
                                           shape |-> "rectangle",
                                           metadata |-> [role |-> "participant"]])],
                edges |-> [k \in DOMAIN messages |->
                              DiagramEdge([id |-> "msg_" \o ToString(k),
                                           source |-> messages[k].src,
                                           target |-> messages[k].dst,
                                           label |-> messages[k].label,
                                           style |-> messages[k].style,
                                           arrow_start |-> messages[k].arrow_start,
                                           arrow_end |-> messages[k].arrow_end,
                                           sequence_order |-> k - 1])],
                groups |-> <<>>,
                diagram_type |-> "sequence",
                metadata |-> [source_format |-> "plantuml",
                              plantuml_type |-> "sequence"]])

\* the keys of a dict are distinct, so the seen set never skips an item
_sequence_data_to_ast(participants, messages) ==
    DiagramAST([nodes |-> [k \in DOMAIN participants |->
                              DiagramNode([id |-> participants[k].key,
                                           label |-> participants[k].value,
                                           shape |-> "rectangle",
                                           metadata |-> [role |-> "participant"]])],
                edges |-> [k \in DOMAIN messages |->
                              DiagramEdge([id |-> "msg_" \o ToString(k),
                                           source |-> messages[k].src,
                                           target |-> messages[k].dst,
                                           label |-> messages[k].label,
                                           style |-> messages[k].style,
                                           arrow_start |-> messages[k].arrow_start,
                                           arrow_end |-> messages[k].arrow_end,
                                           sequence_order |-> k])],
                groups |-> <<>>,
                diagram_type |-> "sequence",
                metadata |-> [source_format |-> "plantuml",
                              plantuml_type |-> "sequence"]])


\* safe_id for the names of the model
safe_id(name) ==
    CASE name = "Zone A" -> "Zone_A"
      [] name = "Zone B" -> "Zone_B"
      [] name = "Orders DB" -> "Orders_DB"
      [] name = "Order Service" -> "Order_Service"
      [] name = "#red" -> "red"
      [] name = "*" -> "n_"
      [] OTHER -> name

\* the name a bracketed endpoint gives: "[*]" reads as the component '*'
Bracketed(name) == IF name = "[*]" THEN "*" ELSE name

PumlNode(id, label, shape, parent_group) ==
    [id |-> id, label |-> label, shape |-> shape, color |-> None,
     parent_group |-> parent_group]

\* how much of the arrow ([<]?[-=.]+[>]?) takes: the longest prefix of that
\* form, 0 when there is none
PlainArrow(arrow) ==
    /\ arrow # <<>>
    /\ \E lo \in 1..2, hi \in (Len(arrow) - 1)..Len(arrow) :
          /\ lo <= hi
          /\ lo = 2 => arrow[1] = "<"
          /\ hi = Len(arrow) - 1 => arrow[Len(arrow)] = ">"
          /\ \A k \in lo..hi : arrow[k] \in {"-", "=", "."}

EdgeArrowLen(arrow) ==
    LET fits == {n \in 1..Len(arrow) : PlainArrow(SubSeq(arrow, 1, n))}
    IN  IF fits = {} THEN 0 ELSE Max(fits)

\* the word made of the glyphs x and o at the head of rest
RECURSIVE WordAtHead(_)
WordAtHead(rest) ==
    IF rest # <<>> /\ Head(rest) \in {"x", "o"}
    THEN Head(rest) \o WordAtHead(Tail(rest)) ELSE ""

WordLenAtHead(rest) ==
    Cardinality({n \in 1..Len(rest) : \A k \in 1..n : rest[k] \in {"x", "o"}})

\* the edge pattern on an arrow line: whether it matches, and the arrow, the
\* target name and the label it takes.  What the arrow pattern leaves of the
\* glyphs must start the target: a colour annotation reads as a bracketed
\* name, x and o as the first letters of a word.
EdgeMatch(line) ==
    LET n == EdgeArrowLen(line.arrow)
        rest == SubSeq(line.arrow, n + 1, Len(line.arrow))
        whole == WordLenAtHead(rest) = Len(rest) /\ line.dst # "[*]"
    IN  IF n = 0 THEN [matches |-> FALSE]
        ELSE IF rest = <<>>
        THEN [matches |-> TRUE, arrow |-> line.arrow, dst |-> Bracketed(line.dst),
              label |-> line.label]
        ELSE IF Head(rest) = "[#red]"
        THEN [matches |-> TRUE, arrow |-> SubSeq(line.arrow, 1, n), dst |-> "#red",
              label |-> ""]
        ELSE IF Head(rest) \in {"x", "o"}
        THEN [matches |-> TRUE, arrow |-> SubSeq(line.arrow, 1, n),
              dst |-> IF whole /\ ~line.spaced THEN WordAtHead(rest) \o line.dst
                      ELSE WordAtHead(rest),
              label |-> IF whole /\ ~line.spaced THEN line.label ELSE ""]
        ELSE [matches |-> FALSE]

GroupKeywords == {"package", "node", "folder", "cloud", "rectangle", "frame"}
ComponentKeywords == {"component", "database", "cloud", "actor", "interface"}

\* nodes[nid] = node, and the append to the children of the current group
Declare(st, nid, node) ==
    [st EXCEPT
        !.nodes = DictPut(@, nid, node),
        !.groups = IF Truthy(st.current_group) /\ st.current_group \in DictKeys(@)
                   THEN DictPut(@, st.current_group,
                                [DictGet(@, st.current_group) EXCEPT
                                    !.children = Append(@, nid)])
                   ELSE @]

\* the '}' line with the cursor put back to no group whatever was open
CloseGroup_to_top(st) ==
    IF st.group_stack # <<>>
    THEN [st EXCEPT !.current_group = None, !.group_stack = DropLast(@, 1)]
    ELSE st

\* the '}' line
CloseGroup(st) ==
    IF st.group_stack # <<>>
    THEN [st EXCEPT !.current_group = st.group_stack[Len(st.group_stack)],
                    !.group_stack = DropLast(@, 1)]
    ELSE st

\* one line of the loop of _parse_component_data
ComponentLine(st, line) ==
    IF line.form = "skip" THEN st
    ELSE IF line.form = "open" /\ line.keyword \in GroupKeywords
    THEN LET gid == IF line.alias # "" THEN line.alias ELSE safe_id(line.label)
         IN  [st EXCEPT !.groups = DictPut(@, gid, [id |-> gid, label |-> line.label,
                                                    children |-> <<>>]),
                        !.group_stack = Append(@, st.current_group),
                        !.current_group = gid]
    ELSE IF line.form = "close" THEN CloseGroup(st)
    ELSE IF line.form = "bracket"
    THEN LET nid == IF line.alias # "" THEN line.alias ELSE safe_id(line.label)
         IN  Declare(st, nid, PumlNode(nid, line.label, "rectangle", st.current_group))
    ELSE IF line.form = "decl" /\ line.keyword \in ComponentKeywords
    THEN LET nid == IF line.alias # "" THEN line.alias ELSE safe_id(line.name)
             shape == CASE line.keyword = "database" -> "database"
                        [] line.keyword \in {"actor", "interface"} -> "circle"
                        [] OTHER -> "rectangle"
         IN  Declare(st, nid, PumlNode(nid, line.name, shape, st.current_group))
    ELSE IF line.form = "arrow" /\ EdgeMatch(line).matches
    THEN LET m == EdgeMatch(line)
             src_id == safe_id(Bracketed(line.src))
             dst_id == safe_id(m.dst)
             withSrc == IF src_id \in DictKeys(st.nodes) THEN st.nodes
                        ELSE DictPut(st.nodes, src_id,
                                     PumlNode(src_id, Bracketed(line.src), "rectangle", None))
             withDst == IF dst_id \in DictKeys(withSrc) THEN withSrc
                        ELSE DictPut(withSrc, dst_id,
                                     PumlNode(dst_id, m.dst, "rectangle", None))
             parsed == parse_arrow(m.arrow)
         IN  [st EXCEPT !.nodes = withDst,
                        !.edges = Append(@, [src |-> src_id, dst |-> dst_id,
                                             label |-> m.label,
                                             line_style |-> parsed.style,
                                             arrow_start |-> parsed.has_start,
                                             arrow_end |-> parsed.has_end])]
    ELSE st

ComponentStart ==
    [nodes |-> <<>>, edges |-> <<>>, groups |-> <<>>,
     current_group |-> None, group_stack |-> <<>>]

RECURSIVE ComponentLoop(_, _, _)
ComponentLoop(content, i, st) ==
    IF i > Len(content) THEN st
    ELSE ComponentLoop(content, i + 1, ComponentLine(st, content[i]))

_parse_component_data(content) ==
    ComponentLoop(content, 1, ComponentStart)

_component_data_to_ast(nodes, edges, groups) ==
    DiagramAST([nodes |-> [k \in DOMAIN nodes |->
                              LET n == nodes[k].value
                              IN  DiagramNode([id |-> n.id, label |-> n.label,
                                               shape |-> n.shape,
                                               fill_color |-> n.color,
                                               parent_group |-> n.parent_group])],
                edges |-> [k \in DOMAIN edges |->
                              LET e == edges[k]
                              IN  DiagramEdge([id |-> "edge_" \o ToString(k),
                                               source |-> e.src, target |-> e.dst,
                                               label |-> e.label,
                                               style |-> e.line_style,
                                               arrow_start |-> e.arrow_start,
                                               arrow_end |-> e.arrow_end])],
                groups |-> [k \in DOMAIN groups |->
                              LET g == groups[k].value
                              IN  DiagramGroup([id |-> g.id, label |-> g.label,
                                                children |-> g.children])],
                diagram_type |-> "flowchart",
                direction |-> "TB",
                metadata |-> [source_format |-> "plantuml",
                              plantuml_type |-> "component"]])

\* the transition pattern on an arrow line,
\* (\[?\*?\]?|\w+)\s*-+>\s*(\[?\*?\]?|\w+)(?:\s*:\s*(.*))?, matched at the start
\* of the line: the arrow has to start with dashes and '>', and the first
\* alternative of the target takes "[*]", a '[' or nothing at all, so a word
\* that follows the arrow is never read
TransitionMatch(line) ==
    LET heads == {d \in 1..(Len(line.arrow) - 1) :
                    /\ \A k \in 1..d : line.arrow[k] = "-"
                    /\ line.arrow[d + 1] = ">"}
        rest == SubSeq(line.arrow, Max(heads) + 2, Len(line.arrow))
    IN  IF heads = {} THEN [matches |-> FALSE]
        ELSE IF rest = <<>> /\ line.dst = "[*]"
        THEN [matches |-> TRUE, dst |-> "[*]", label |-> line.label]
        ELSE IF rest # <<>> /\ Head(rest) = "[#red]"
        THEN [matches |-> TRUE, dst |-> "[", label |-> ""]
        ELSE [matches |-> TRUE, dst |-> "", label |-> ""]

RECURSIVE StateLoop(_, _, _, _)
StateLoop(content, i, states, transitions) ==
    IF i > Len(content) THEN [states |-> states, transitions |-> transitions]
    ELSE LET line == content[i]
         IN  IF line.form = "skip"
             THEN StateLoop(content, i + 1, states, transitions)
             ELSE IF line.form = "decl" /\ line.keyword = "state" /\ line.alias # ""
             THEN StateLoop(content, i + 1, DictPut(states, line.alias, line.name),
                            transitions)
             ELSE IF line.form = "arrow" /\ TransitionMatch(line).matches
             THEN LET m == TransitionMatch(line)
                      withSrc == IF line.src \notin DictKeys(states) /\ line.src # "[*]"
                                 THEN DictPut(states, line.src, line.src) ELSE states
                      withDst == IF m.dst \notin DictKeys(withSrc) /\ m.dst # "[*]"
                                 THEN DictPut(withSrc, m.dst, m.dst) ELSE withSrc
                  IN  StateLoop(content, i + 1, withDst,
                                Append(transitions, [src |-> line.src, dst |-> m.dst,
                                                     label |-> m.label]))
             ELSE StateLoop(content, i + 1, states, transitions)

_parse_state_data(content) == StateLoop(content, 1, <<>>, <<>>)

_state_data_to_ast(states, transitions) ==
    DiagramAST([nodes |-> [k \in DOMAIN states |->
                              DiagramNode([id |-> states[k].key,
                                           label |-> states[k].value,
                                           shape |-> "rectangle"])],
                edges |-> [k \in DOMAIN transitions |->
                              DiagramEdge([id |-> "trans_" \o ToString(k),
                                           source |-> transitions[k].src,
                                           target |-> transitions[k].dst,
                                           label |-> transitions[k].label])],
                groups |-> <<>>,
                diagram_type |-> "state",
                metadata |-> [source_format |-> "plantuml",
                              plantuml_type |-> "state"]])

(***************************************************************************)
(* convert_plantuml_to_ast as a state machine: the content is handed in,   *)
(* the parser chosen by detect_diagram_type reads it, and the AST is built *)
(* from what it returns and enriched.                                      *)
(***************************************************************************)
ParsePlantuml ==
    /\ p_pc = "called"
    /\ LET dtype == detect_diagram_type(p_content)
       IN  p_data' = IF dtype = "sequence"
                     THEN [dtype |-> dtype] @@ _parse_sequence_data(p_content)
                     ELSE IF dtype = "state"
                     THEN [dtype |-> dtype] @@ _parse_state_data(p_content)
                     ELSE [dtype |-> dtype] @@ _parse_component_data(p_content)
    /\ p_pc' = "parsed"
    /\ UNCHANGED <<p_arrow, p_parsed, p_content, p_ast>>
    /\ UNCHANGED notPuml

BuildPlantumlAst ==
    /\ p_pc = "parsed"
    /\ p_ast' = IF p_data.dtype = "sequence"
                THEN enrich_ast(_sequence_data_to_ast(p_data.participants,
                                                      p_data.messages))
                ELSE IF p_data.dtype = "state"
                THEN enrich_ast(_state_data_to_ast(p_data.states, p_data.transitions))
                ELSE enrich_ast(_component_data_to_ast(p_data.nodes, p_data.edges,
                                                       p_data.groups))
    /\ p_pc' = "done"
    /\ UNCHANGED <<p_arrow, p_parsed, p_content, p_data>>
    /\ UNCHANGED notPuml

PumlNext == ParsePlantuml \/ BuildPlantumlAst

SequenceLineSamples ==
    {Skip("' comment"), Other("activate A"),
     Decl("participant", "A", FALSE, ""), Decl("participant", "B", FALSE, ""),
     Decl("participant", "Order Service", FALSE, ""),
     Decl("participant", "Order Service", TRUE, "A"),
     Decl("actor", "User", FALSE, ""),
     Arrow("A", <<"-", ">">>, "B", TRUE, "hello", TRUE),
     Arrow("B", <<"-", "-", ">">>, "A", FALSE, "", TRUE),
     Arrow("A", <<"-", ">", "x">>, "B", TRUE, "HTTPS query", TRUE),
     Arrow("B", <<"-", ">">>, "User", TRUE, "late", FALSE)}

SequenceInit ==
    /\ IdleBut("puml")
    /\ p_pc = "called"
    /\ p_content \in SeqsUpTo(SequenceLineSamples, MaxSeqLines)
    /\ p_arrow = <<>> /\ p_parsed = <<>> /\ p_data = Idle /\ p_ast = Idle

SpecSequence == SequenceInit /\ [][PumlNext]_vars

ComponentLineSamples ==
    {Skip(""), Close,
     Open("package", "Zone A", "A"), Open("node", "Zone B", ""),
     Bracket("X", ""), Bracket("Orders DB", "X"),
     Decl("database", "Orders DB", TRUE, ""),
     Arrow("X", <<"-", "-", ">">>, "Y", FALSE, "", TRUE),
     Arrow("Y", <<"<", ".", ".">>, "Orders_DB", TRUE, "HTTPS query", FALSE)}

ComponentInit ==
    /\ IdleBut("puml")
    /\ p_pc = "called"
    /\ p_content \in SeqsUpTo(ComponentLineSamples, MaxCompLines)
    /\ p_arrow = <<>> /\ p_parsed = <<>> /\ p_data = Idle /\ p_ast = Idle

SpecComponent == ComponentInit /\ [][PumlNext]_vars

StateLineSamples ==
    {Skip("@startuml"),
     Decl("state", "Running", TRUE, "R"),
     Arrow("[*]", <<"-", "-", ">">>, "R", FALSE, "", TRUE),
     Arrow("R", <<"-", "-", ">">>, "Done", TRUE, "finish", TRUE),
     Arrow("Done", <<"-", "-", ">">>, "[*]", TRUE, "HTTPS query", TRUE),
     Arrow("R", <<"-", ">">>, "[*]", FALSE, "", FALSE),
     Arrow("Done", <<"<", "-", "-">>, "R", FALSE, "", TRUE)}

StateInit ==
    /\ IdleBut("puml")
    /\ p_pc = "called"
    /\ p_content \in SeqsUpTo(StateLineSamples, MaxSeqLines)
    /\ p_arrow = <<>> /\ p_parsed = <<>> /\ p_data = Idle /\ p_ast = Idle

SpecState == StateInit /\ [][PumlNext]_vars


(***************************************************************************)
(* The loop of _parse_component_data line by line: p_data holds the number *)
(* of lines read and the locals of the parser after them.                  *)
(***************************************************************************)
MaxStepLines == 4

StepLineSamples ==
    {Skip("' comment"), Close,
     Open("package", "Zone A", "A"), Open("node", "Zone B", ""),
     Bracket("X", ""), Decl("database", "Orders DB", TRUE, "X")}

ComponentLinesInit ==
    /\ IdleBut("puml")
    /\ p_pc = "lines"
    /\ p_content \in SeqsUpTo(StepLineSamples, MaxStepLines)
    /\ p_data = [read |-> 0, st |-> ComponentStart]
    /\ p_arrow = <<>> /\ p_parsed = <<>> /\ p_ast = Idle

ParseComponentLine ==
    /\ p_pc = "lines"
    /\ p_data.read < Len(p_content)
    /\ p_data' = [read |-> p_data.read + 1,
                  st |-> ComponentLine(p_data.st, p_content[p_data.read + 1])]
    /\ UNCHANGED <<p_pc, p_arrow, p_parsed, p_content, p_ast>>
    /\ UNCHANGED notPuml

SpecComponentLines == ComponentLinesInit /\ [][ParseComponentLine]_vars

(***************************************************************************)
(* Claims about the PlantUML parsers.                                      *)
(***************************************************************************)
SequenceAst == p_pc = "done" /\ p_ast.diagram_type = "sequence"

\* the lines of the content the message pattern matches, in text order
MessageLines ==
    SelectSeq(p_content,
              LAMBDA l : l.form = "arrow" /\ l.spaced /\ MessageArrow(l.arrow)
                         /\ l.src # "[*]" /\ l.dst # "[*]")

ScenarioC == <<Decl("participant", "A", FALSE, ""), Decl("participant", "B", FALSE, ""),
               Arrow("A", <<"-", ">">>, "B", TRUE, "hello", TRUE)>>

Declarations ==
    {i \in DOMAIN p_content : HasKeyword(p_content[i], SequenceKeywords)
                              /\ p_content[i].form = "decl"}
MessageWords ==
    UNION {{MessageLines[k].src, MessageLines[k].dst} : k \in DOMAIN MessageLines}

\* C15: in every AST an extractor returns the node ids are pairwise distinct,
\* and one declared source element (here: one declared participant, or one
\* name used in a message) gives rise to at most one node.  Stated for the
\* PlantUML sequence parser.
C15_DistinctNodes ==
    SequenceAst =>
        /\ \A i, k \in DOMAIN p_ast.nodes :
              p_ast.nodes[i].id = p_ast.nodes[k].id => i = k
        /\ Len(p_ast.nodes) <= Cardinality(Declarations) + Cardinality(MessageWords)

\* one declaration, 'participant Order Service', and two nodes
C15_TwoNodesForOneParticipant ==
    /\ SequenceAst
    /\ p_content = <<Decl("participant", "Order Service", FALSE, "")>>
    /\ Len(p_ast.nodes) = 2

ComponentAst == p_pc = "done" /\ p_ast.diagram_type = "flowchart"

\* C16: in every AST of the PlantUML component parser, after any sequence of
\* container openers, closers and (re)declarations, a node's id is among a
\* group's children exactly when the node's parent_group is that group's id,
\* and every parent_group that is not None is the id of a group of the AST.
C16_MembershipConsistent ==
    ComponentAst =>
        /\ \A i \in DOMAIN p_ast.nodes, k \in DOMAIN p_ast.groups :
              (p_ast.nodes[i].id \in Range(p_ast.groups[k].children))
                  <=> (p_ast.nodes[i].parent_group = p_ast.groups[k].id)
        /\ \A i \in DOMAIN p_ast.nodes :
              p_ast.nodes[i].parent_group # None =>
                  \E k \in DOMAIN p_ast.groups :
                      p_ast.groups[k].id = p_ast.nodes[i].parent_group

\* [X] declared in package A and again in node "Zone B": it stays among the
\* children of A with parent_group Zone_B
C16_RedeclaredElsewhere ==
    /\ ComponentAst
    /\ \E i \in DOMAIN p_ast.nodes, k \in DOMAIN p_ast.groups :
          /\ p_ast.nodes[i].id \in Range(p_ast.groups[k].children)
          /\ p_ast.nodes[i].parent_group # p_ast.groups[k].id


\* the ids of the containers opened and not yet closed after the lines given,
\* outermost first; a '}' with nothing open closes nothing
RECURSIVE OpenContainers(_)
OpenContainers(lines) ==
    IF lines = <<>> THEN <<>>
    ELSE LET before == OpenContainers(DropLast(lines, 1))
             line == lines[Len(lines)]
         IN  IF line.form = "open"
             THEN Append(before, IF line.alias # "" THEN line.alias
                                 ELSE safe_id(line.label))
             ELSE IF line.form = "close" /\ before # <<>> THEN DropLast(before, 1)
             ELSE before

LinesRead == SubSeq(p_content, 1, p_data.read)
Cursor == p_data.st.current_group
LastRead == p_content[p_data.read]
DeclaredId == IF LastRead.alias # "" THEN LastRead.alias
              ELSE safe_id(IF LastRead.form = "bracket" THEN LastRead.label
                           ELSE LastRead.name)

\* C23: after any sequence of container openers, '}' closers and component
\* declarations the group cursor is the innermost container opened and not
\* yet closed (none when all are closed or more closers than openers were
\* read), the stack depth is the number of open containers, and a component
\* just declared has the cursor as parent_group and is the last of that
\* group's children.
C23_GroupCursor ==
    p_pc = "lines" =>
        /\ Cursor = (IF OpenContainers(LinesRead) = <<>> THEN None
                     ELSE OpenContainers(LinesRead)[Len(OpenContainers(LinesRead))])
        /\ Len(p_data.st.group_stack) = Len(OpenContainers(LinesRead))
        /\ (p_data.read > 0 /\ LastRead.form \in {"bracket", "decl"}) =>
              /\ DictGet(p_data.st.nodes, DeclaredId).parent_group = Cursor
              /\ Cursor # None =>
                    LET children == DictGet(p_data.st.groups, Cursor).children
                    IN  children # <<>> /\ children[Len(children)] = DeclaredId

\* two containers opened, the inner one closed, then a declaration: the
\* component belongs to the outer container
C23_Witness ==
    /\ p_pc = "lines" /\ p_data.read = 4
    /\ p_content[1].form = "open" /\ p_content[2].form = "open"
    /\ p_content[3].form = "close" /\ p_content[4].form = "bracket"
    /\ Cursor = "A"
    /\ DictGet(p_data.st.nodes, "X").parent_group = "A"


(***************************************************************************)
(* State diagrams: the endpoints of the transitions and the schema of the  *)
(* AST                                                                     *)
(***************************************************************************)
PlantumlAst == p_pc = "done"

StateAst == p_pc = "done" /\ p_ast.diagram_type = "state"

PumlNodeIds == {p_ast.nodes[k].id : k \in DOMAIN p_ast.nodes}

C29_StartIsNoNode ==
    /\ StateAst
    /\ "[*]" \notin PumlNodeIds
    /\ \E e \in DOMAIN p_ast.edges : p_ast.edges[e].source = "[*]"

\* C21: every AST that convert_plantuml_to_ast returns passes the schema
\* check of the quality gate: non-empty node ids, a label and a valid shape
\* for every node, a non-empty source and target and a valid style for
\* every edge, a valid diagram type and direction.
C21_SchemaConformance == PlantumlAst => _check_schema(p_ast) = <<>>

\* a state diagram whose transition names its target gets a node without id
C21_NodeWithoutId ==
    /\ StateAst
    /\ "" \in PumlNodeIds
    /\ \E e \in DOMAIN p_ast.edges : p_ast.edges[e].target = ""


(***************************************************************************)
(* Batch mode (extract_rules.py): batch_extract over the page folders of   *)
(* one index, between runs of which page.md files are written and rules.md *)
(* files removed.  r_ops counts the runs.                                  *)
(***************************************************************************)
MaxBatchRuns == 3

PageContents == {"v1", "v1+", "v2"}

\* re.search(r"Fingerprint:\s*([a-f0-9]{12})", line) on the metadata line
_read_stored_fingerprint(rules_md) ==
    IF rules_md[1].fingerprint \in {"0123456789ab", "ba9876543210"}
    THEN rules_md[1].fingerprint
    ELSE ""

\* the rows of the table of a rules.md read back as dicts
_parse_page_rules(rules_md, page_id) ==
    LET rows == SelectSeq(rules_md[1].rows, LAMBDA cols : Len(cols) >= 6)
    IN  [i \in DOMAIN rows |->
            Rule(rows[i][2], rows[i][3], rows[i][4], rows[i][5], rows[i][6],
                 IF Len(rows[i]) > 6 THEN rows[i][7] ELSE "")
            @@ [_source |-> page_id]]

\* sorted() on the page folders of the model
PageOrder == <<"p1", "p2">>

_rebuild_all_rules(rules_mds) ==
    LET present == SelectSeq(PageOrder, LAMBDA p : rules_mds[p] # <<>>)
        all_rules == Flatten([k \in DOMAIN present |->
                                _parse_page_rules(rules_mds[present[k]], present[k])])
    IN  AllRulesMd(_deduplicate_rules_with_source(all_rules))

\* the *.ast.json files of the page folders
PageDirAsts(page_id) ==
    IF page_id = "p1"
    THEN <<DiagramAST([nodes |-> <<RuleNode("gw", "Api Gateway", "gateway"),
                                   RuleNode("db", "Ledger|EU", "datastore")>>])>>
    ELSE <<>>

IsCurrent_whenever_rules_md(page_md, rules_md) == rules_md # <<>>

\* the test under refresh_only: rules.md exists and its stored fingerprint
\* is that of page.md
IsCurrent(page_md, rules_md) ==
    /\ rules_md # <<>>
    /\ _read_stored_fingerprint(rules_md) # ""
    /\ _read_stored_fingerprint(rules_md) = _fingerprint(page_md[1])

\* the loop over the page folders and the rebuild
batch_extract(refresh_only, page_mds, rules_mds) ==
    LET listed == {p \in Pages : page_mds[p] # <<>>}
        skipped == {p \in listed : refresh_only /\ IsCurrent(page_mds[p], rules_mds[p])}
        rules(p) == extract_rules_from_page(PageDirAsts(p))
        written == [p \in Pages |->
                        IF p \in listed \ skipped
                        THEN <<write_rules_md(rules(p), p, page_mds[p])>>
                        ELSE rules_mds[p]]
        results == [p \in listed |->
                        IF p \in skipped THEN [status |-> "current", rules_count |-> 0]
                        ELSE [status |-> "extracted", rules_count |-> Len(rules(p))]]
    IN  [rules_mds |-> written,
         pages |-> results,
         all_rules_md |-> _rebuild_all_rules(written)]

\* the files of an index whose pages were ingested before their page.md was
\* there, or not at all
BatchInit ==
    /\ r_ops = 0
    /\ r_page_md \in [Pages -> {<<>>, <<"v1">>}]
    /\ \E early \in SUBSET Pages :
          r_rules_md = [p \in Pages |->
                          IF p \in early THEN <<write_rules_md(<<>>, p, <<>>)>> ELSE <<>>]
    /\ r_all_rules_md = <<>>
    /\ r_dedups = <<>>
    /\ r_call = <<>>
    /\ IdleBut("rules")

BatchExtract ==
    /\ r_ops < MaxBatchRuns
    /\ \E refresh_only \in BOOLEAN :
        LET run == batch_extract(refresh_only, r_page_md, r_rules_md)
        IN  /\ r_rules_md' = run.rules_mds
            /\ r_all_rules_md' = <<run.all_rules_md>>
            /\ r_call' = <<[op |-> "batch_extract", refresh_only |-> refresh_only,
                            page_md |-> r_page_md, pages |-> run.pages]>>
    /\ r_ops' = r_ops + 1
    /\ UNCHANGED <<r_page_md, r_dedups, notRules>>

\* page.md of a page is written, by the ingestion of the page
WritePageMd ==
    /\ \E p \in Pages, content \in PageContents : r_page_md' = [r_page_md EXCEPT ![p] = <<content>>]
    /\ UNCHANGED <<r_ops, r_rules_md, r_all_rules_md, r_dedups, r_call, notRules>>

\* rules.md of a page is removed
RemoveRulesMd ==
    /\ \E p \in Pages :
          /\ r_rules_md[p] # <<>>
          /\ r_rules_md' = [r_rules_md EXCEPT ![p] = <<>>]
    /\ UNCHANGED <<r_ops, r_page_md, r_all_rules_md, r_dedups, r_call, notRules>>

BatchNext == BatchExtract \/ WritePageMd \/ RemoveRulesMd

SpecBatch == BatchInit /\ [][BatchNext]_vars


(***************************************************************************)
(* Claims about the staleness test of batch_extract.                       *)
(***************************************************************************)
\* a step that is a run of batch_extract with refresh_only
RefreshRun == r_ops' = r_ops + 1 /\ r_call'[1].op = "batch_extract" /\ r_call'[1].refresh_only

Skipped(p) ==
    /\ p \in DOMAIN r_call'[1].pages
    /\ r_call'[1].pages[p].status = "current"
    /\ r_rules_md'[p] = r_rules_md[p]

Reextracted(p) ==
    /\ p \in DOMAIN r_call'[1].pages
    /\ r_call'[1].pages[p].status = "extracted"
    /\ r_rules_md'[p] = <<write_rules_md(extract_rules_from_page(PageDirAsts(p)), p,
                                         r_page_md[p])>>

StoredFingerprint(p) == r_rules_md[p][1].fingerprint

\* C27, with the fingerprint for what it is: a run of batch_extract with
\* refresh_only skips a page that has a page.md (status 'current', rules.md
\* left as it is) if and only if rules.md exists and its metadata line has
\* a 12-digit fingerprint equal to the fingerprint of the first 64KB of
\* page.md, and re-extracts the page otherwise; a page without page.md is
\* neither skipped nor re-extracted.
C27_StaleByFingerprint ==
    [][RefreshRun =>
        \A p \in Pages :
            IF r_page_md[p] = <<>>
            THEN p \notin DOMAIN r_call'[1].pages /\ r_rules_md'[p] = r_rules_md[p]
            ELSE LET same == /\ r_rules_md[p] # <<>>
                             /\ StoredFingerprint(p) # "unknown"
                             /\ StoredFingerprint(p) = _fingerprint(r_page_md[p][1])
                 IN  /\ Skipped(p) <=> same
                     /\ Reextracted(p) <=> ~same]_vars

\* a run with refresh_only that found one page current and extracted the
\* other
C27_Witness ==
    /\ r_call # <<>>
    /\ r_call[1].op = "batch_extract" /\ r_call[1].refresh_only
    /\ DOMAIN r_call[1].pages = Pages
    /\ r_call[1].pages["p1"].status = "current"
    /\ r_call[1].pages["p2"].status = "extracted"
    /\ r_rules_md["p1"] # <<>> /\ r_rules_md["p2"] # <<>>

\* C27 as stated: besides, a page whose page.md has changed since the run
\* that extracted it is re-extracted by the next run with refresh_only.
C27_ChangedPageReextracted ==
    [][(RefreshRun /\ r_call # <<>>) =>
        \A p \in Pages :
            (/\ p \in DOMAIN r_call[1].pages
             /\ r_call[1].pages[p].status = "extracted"
             /\ r_page_md[p] # r_call[1].page_md[p]) => Reextracted(p)]_vars


(***************************************************************************)
(* Incremental consolidation: pages are ingested one after the other, each *)
(* ingestion writing the page's rules.md and passing the same rules to     *)
(* update_all_rules.                                                       *)
(***************************************************************************)
MaxIngests == 3

\* the AST files of a page at the time of an ingestion: none, a diagram
\* with a gateway, one with a data store, one with both
IngestSamples ==
    {<<>>,
     <<DiagramAST([nodes |-> <<RuleNode("db", "Ledger", "datastore")>>])>>,
     <<DiagramAST([nodes |-> <<RuleNode("gw", "Api Gateway", "gateway")>>])>>,
     <<DiagramAST([nodes |-> <<RuleNode("gw", "Edge", "gateway"),
                               RuleNode("db", "Orders DB", "datastore")>>])>>}

IngestInit ==
    /\ r_ops = 0
    /\ r_page_md = [p \in Pages |-> <<"v1">>]
    /\ r_rules_md = [p \in Pages |-> <<>>]
    /\ r_all_rules_md = <<>>
    /\ r_dedups = <<>>
    /\ r_call = <<>>
    /\ IdleBut("rules")

IngestPage ==
    /\ r_ops < MaxIngests
    /\ \E page_id \in Pages, ast_files \in IngestSamples :
          ExtractAndWrite(page_id, ast_files)

SpecIngest == IngestInit /\ [][IngestPage]_vars

\* the keys of the rules a page currently has: those of its rules.md
CurrentKeys(p) ==
    IF r_rules_md[p] = <<>> THEN {} ELSE KeysOf(_parse_page_rules(r_rules_md[p], p))

ConsolidatedKeys == KeysOf(_parse_all_rules(r_all_rules_md))

\* C28: after any sequence of ingestions the (rule, ast_condition) keys of
\* _all.rules.md are the keys of the rules the pages currently have, which
\* are the keys _rebuild_all_rules would write.
C28_IncrementalIsRebuild ==
    /\ ConsolidatedKeys = UNION {CurrentKeys(p) : p \in Pages}
    /\ ConsolidatedKeys = KeysOf(_parse_all_rules(<<_rebuild_all_rules(r_rules_md)>>))

\* a rule of page p2 that the consolidated file has lost: p1 was ingested
\* last, with no rule
C28_RuleOfOtherPageLost ==
    /\ r_ops = 3
    /\ r_call[1].page_id = "p1" /\ r_call[1].new_rules = <<>>
    /\ <<"API gateway present", "node.role == gateway">> \in CurrentKeys("p2")
    /\ ConsolidatedKeys = {}

====
